---- MODULE Spec2Model ----
(***************************************************************************)
(* A model of the invoice OCR pipeline of sheldon123z/invoice-ocr:         *)
(*   - the response parsers (parse_invoice_info, parse_amount),            *)
(*   - the per-document processor process_file with its retry loop,        *)
(*   - the batch analyzer validate_and_analyze,                            *)
(*   - the GUI batch worker and the UI handlers that drive it.             *)
(*                                                                         *)
(* Texts are sequences of one-character strings.  A non-ASCII character    *)
(* is written by its code point ("U5408" is the character U+5408).         *)
(* Python floats are modelled as exact decimals [m, e] = m / 10^e; the     *)
(* literals of the model are short, so no rounding is involved.            *)
(***************************************************************************)
EXTENDS Integers, Sequences, FiniteSets, TLC

VARIABLES
  \* ---- parser harness
  p_in,          \* the response text handed to a parser
  p_fn,          \* which parser ran: "none", "parse_invoice_info", "parse_amount"
  p_out,         \* what it returned
  \* ---- one call of process_file(path, args, max_retries)
  is_pdf,        \* path.suffix.lower() == ".pdf"
  max_retries,   \* the argument max_retries
  pc,            \* where the call stands: "while", "rasterize", "validate", "extract", "done"
  retry_count,   \* the local retry_count
  info,          \* the local info
  errors,        \* the local errors
  tmpdirs,       \* temporary directories that exist
  calls,         \* history: the provider calls issued, in order
  rasters,       \* history: the results of run_pdftoppm_first_page, in order
  sleeps,        \* history: the time.sleep delays, in order
  \* ---- one batch handed to validate_and_analyze
  invoices,      \* the outcome list [(path, info, errors)] built by main's loop
  analysis,      \* what validate_and_analyze returned for it
  passed,        \* history: the outcome list as it was when first passed
  analysis_again, \* what a second call on the same list returned
  \* ---- the GUI: InvoiceOCRApp and its worker threads
  processing,    \* self.processing
  start_btn,     \* state of self.start_btn: "normal" or "disabled"
  stop_btn,      \* state of self.stop_btn
  progress_var,  \* self.progress_var, in percent
  config_mode,   \* self.config.mode
  config_retries, \* self.config.max_retries
  message_queue, \* self.message_queue, oldest message first
  ui_pc,         \* the UI thread: "idle", or "draining" inside check_message_queue
  workers,       \* the threads started by start_processing, in order
  \* ---- the enrichment passes of the GUI loop for one document
  enable_verify,   \* self.config.enable_verify
  enable_classify, \* self.config.enable_classify
  e_pc,            \* where the loop body stands after process_file
  enrich,          \* the verification and classification fields of info
  enrich_tmp,      \* temporary directories of the two passes that exist
  enrich_log,      \* history: rasterizations and provider calls of the passes
  \* ---- ocr_api: one provider, created from a configuration and called once
  api_config,      \* the dict handed to create_provider
  api_provider,    \* what create_provider gave: an instance, or the exception
  api_result,      \* what call_ocr gave: the request built and the reply or exception
  \* ---- one scan of a directory tree by iter_invoice_files
  scan_fs,         \* the entries root.rglob("*") finds
  scan_out,        \* list(iter_invoice_files(root)), once the scan is made
  \* ---- one call of rename_invoice_files
  ren_fs,          \* the files of the directory: name and content
  ren_batch,       \* the argument invoices
  ren_rename,      \* the argument rename
  ren_posix,       \* the platform: os.rename replaces a file (POSIX) or raises
  ren_idx,         \* the position of the for loop, 0 before the call
  ren_ops,         \* rename_ops
  ren_out          \* the list returned
pvars == <<p_in, p_fn, p_out>>
fvars == <<is_pdf, max_retries, pc, retry_count, info, errors, tmpdirs, calls, rasters, sleeps>>
avars == <<invoices, analysis, passed, analysis_again>>
gvars ==
  <<processing, start_btn, stop_btn, progress_var, config_mode, config_retries,
    message_queue, ui_pc, workers>>
evars == <<enable_verify, enable_classify, e_pc, enrich, enrich_tmp, enrich_log>>
apivars == <<api_config, api_provider, api_result>>
svars == <<scan_fs, scan_out>>
rvars == <<ren_fs, ren_batch, ren_rename, ren_posix, ren_idx, ren_ops, ren_out>>

vars == <<pvars, fvars, avars, gvars, evars, apivars, svars, rvars>>
\* what the actions of one part leave alone
notParse == <<fvars, avars, gvars, evars, apivars, svars, rvars>>
notFile == <<pvars, avars, gvars, evars, apivars, svars, rvars>>
notAnalyze == <<pvars, fvars, gvars, evars, apivars, svars, rvars>>
notGui == <<pvars, fvars, avars, evars, apivars, svars, rvars>>
notEnrich == <<pvars, avars, gvars, apivars, svars, rvars>>
notApi == <<pvars, fvars, avars, gvars, evars, svars, rvars>>
notScan == <<pvars, fvars, avars, gvars, evars, apivars, rvars>>
notRename == <<pvars, fvars, avars, gvars, evars, apivars, svars>>

-----------------------------------------------------------------------------
(* Bounds of the model *)

\* longest raw (non-JSON) response text enumerated for the parsers
MaxTextLen == 4
\* largest max_retries handed to process_file
MaxRetries == 3
\* longest outcome list handed to validate_and_analyze
MaxBatch == 4
\* most files one scan of the GUI discovers
MaxFiles == 2
\* most batches started in one GUI session
MaxStarts == 2
\* most entries in the directory tree scanned
MaxEntries == 2
\* most outcomes handed to one call of rename_invoice_files
MaxRenames == 2

-----------------------------------------------------------------------------
(* Decimals: the value m / 10^e, kept normalised (no trailing zero in the  *)
(* fraction), so that equal values are equal records.                      *)

RECURSIVE Pow10(_)
Pow10(n) == IF n = 0 THEN 1 ELSE 10 * Pow10(n - 1)

RECURSIVE MkDec(_, _)
MkDec(m, e) == IF e > 0 /\ m % 10 = 0 THEN MkDec(m \div 10, e - 1)
               ELSE [m |-> m, e |-> e]

DecZero == [m |-> 0, e |-> 0]
DecOne == [m |-> 1, e |-> 0]
DecLess(a, b) == a.m * Pow10(b.e) < b.m * Pow10(a.e)
DecPos(a) == a.m > 0
DecNeg(a) == a.m < 0

RECURSIVE DecMaxOf(_)
DecMaxOf(s) ==
  IF Len(s) = 1 THEN s[1]
  ELSE LET r == DecMaxOf(Tail(s)) IN IF DecLess(s[1], r) THEN r ELSE s[1]

-----------------------------------------------------------------------------
(* Python string primitives *)

Digits == {"0", "1", "2", "3", "4", "5", "6", "7", "8", "9"}
DigitVal(c) ==
  CASE c = "0" -> 0 [] c = "1" -> 1 [] c = "2" -> 2 [] c = "3" -> 3
    [] c = "4" -> 4 [] c = "5" -> 5 [] c = "6" -> 6 [] c = "7" -> 7
    [] c = "8" -> 8 [] c = "9" -> 9

IsDigit(c) == c \in Digits
IsSpace(c) == c = " "

\* s[i..j] (empty when j < i)
Slice(s, i, j) == IF j < i THEN <<>> ELSE SubSeq(s, i, j)

\* str.replace(",", "")
RECURSIVE RemoveCommas(_)
RemoveCommas(s) ==
  IF s = <<>> THEN <<>>
  ELSE IF Head(s) = "," THEN RemoveCommas(Tail(s))
       ELSE <<Head(s)>> \o RemoveCommas(Tail(s))

\* str.strip(): leading and trailing whitespace removed
RECURSIVE LStrip(_)
LStrip(s) == IF s # <<>> /\ IsSpace(Head(s)) THEN LStrip(Tail(s)) ELSE s
RECURSIVE RStrip(_)
RStrip(s) == IF s # <<>> /\ IsSpace(s[Len(s)]) THEN RStrip(Slice(s, 1, Len(s) - 1)) ELSE s
Strip(s) == RStrip(LStrip(s))

\* index just past the run of digits that starts at i
RECURSIVE DigitsEnd(_, _)
DigitsEnd(s, i) == IF i <= Len(s) /\ IsDigit(s[i]) THEN DigitsEnd(s, i + 1) ELSE i

\* the natural number written by a run of digits
RECURSIVE DigitsVal(_)
DigitsVal(s) == IF s = <<>> THEN 0 ELSE DigitsVal(Slice(s, 1, Len(s) - 1)) * 10 + DigitVal(s[Len(s)])

ValueError == [err |-> "ValueError"]

(* float(s) for a string s: surrounding whitespace is ignored, then an     *)
(* optional sign and a decimal literal with digits on at least one side of *)
(* the point.  Anything else raises ValueError.  (Exponents, underscores,  *)
(* "inf" and "nan" need letters the texts of this model do not hold.)      *)
PyFloatStr(str) ==
  LET s == Strip(str)
      signed == s # <<>> /\ s[1] \in {"-", "+"}
      i0 == IF signed THEN 2 ELSE 1
      i1 == DigitsEnd(s, i0)
      hasPoint == i1 <= Len(s) /\ s[i1] = "."
      i2 == IF hasPoint THEN DigitsEnd(s, i1 + 1) ELSE i1
      intDigits == Slice(s, i0, i1 - 1)
      fracDigits == IF hasPoint THEN Slice(s, i1 + 1, i2 - 1) ELSE <<>>
      mag == DigitsVal(intDigits \o fracDigits)
  IN IF i2 = Len(s) + 1 /\ Len(intDigits) + Len(fracDigits) > 0
     THEN MkDec(IF signed /\ s[1] = "-" THEN 0 - mag ELSE mag, Len(fracDigits))
     ELSE ValueError

-----------------------------------------------------------------------------
(* Model replies.  json.loads is the library decoder: a reply is given     *)
(* either as a raw text that does not encode a JSON object, or as a JSON   *)
(* object by its members, whose text is its serialisation Render.  A run   *)
(* of characters without digit, sign, point or comma (a key, a keyword)    *)
(* is written as one element of the text.                                  *)

JNum(lit) == [t |-> "num", v |-> lit]
JStr(s) == [t |-> "str", v |-> s]
JTrue == [t |-> "true", v |-> <<>>]
JFalse == [t |-> "false", v |-> <<>>]
JNull == [t |-> "null", v |-> <<>>]
JList == [t |-> "list", v |-> <<>>]
Absent == [t |-> "absent", v |-> <<>>]

Keys == {"invoice_no", "issue_date", "seller", "buyer", "total", "tax",
         "subtotal", "items", "notes", "is_invoice"}
KeyOrder == <<"invoice_no", "issue_date", "seller", "buyer", "total", "tax",
              "subtotal", "items", "notes", "is_invoice">>

RawReply(text) == [kind |-> "raw", text |-> text, mem |-> [k \in Keys |-> Absent]]
ObjReply(mem) == [kind |-> "obj", text |-> <<>>, mem |-> mem]

RenderVal(x) ==
  CASE x.t = "num" -> x.v
    [] x.t = "str" -> <<"\"">> \o x.v \o <<"\"">>
    [] x.t = "true" -> <<"true">>
    [] x.t = "false" -> <<"false">>
    [] x.t = "null" -> <<"null">>
    [] x.t = "list" -> <<"[", "]">>

RECURSIVE RenderMembers(_, _, _)
RenderMembers(mem, i, first) ==
  IF i > Len(KeyOrder) THEN <<>>
  ELSE LET k == KeyOrder[i] IN
       IF mem[k] = Absent THEN RenderMembers(mem, i + 1, first)
       ELSE (IF first THEN <<>> ELSE <<",", " ">>)
            \o <<"\"", k, "\"", ":", " ">> \o RenderVal(mem[k])
            \o RenderMembers(mem, i + 1, FALSE)

Render(mem) == <<"{">> \o RenderMembers(mem, 1, TRUE) \o <<"}">>

\* the response text of a reply
TextOf(reply) == IF reply.kind = "raw" THEN reply.text ELSE Render(reply.mem)

\* isinstance(json.loads(response_text), dict)
IsDict(reply) == reply.kind = "obj"

\* data.get(key, default)
DictGet(reply, key, default) ==
  IF reply.mem[key] = Absent THEN default ELSE reply.mem[key]

\* isinstance(val, (int, float)): JSON numbers, and bool, a subclass of int
IsNumber(val) == val.t \in {"num", "true", "false"}

\* float(val) for such a value
FloatOfNumber(val) ==
  CASE val.t = "num" -> PyFloatStr(val.v)
    [] val.t = "true" -> DecOne
    [] val.t = "false" -> DecZero

\* float(val.replace(",", "").strip() or 0) for a string val
FloatOfString(s) ==
  LET t == Strip(RemoveCommas(s)) IN IF t = <<>> THEN DecZero ELSE PyFloatStr(t)

\* str(val) (a number put into a text field is an integer literal here)
PyStr(val) ==
  CASE val.t = "str" -> val.v
    [] val.t = "num" -> val.v
    [] val.t = "true" -> <<"T", "r", "u", "e">>
    [] val.t = "false" -> <<"F", "a", "l", "s", "e">>
    [] val.t = "null" -> <<"N", "o", "n", "e">>
    [] val.t = "list" -> <<"[", "]">>

-----------------------------------------------------------------------------
(* re.findall(r"[-+]?\d+(?:[.,]\d+)?", text): leftmost, greedy and         *)
(* non-overlapping matches, scanned from position i.                       *)

RECURSIVE FindAllNumbers(_, _)
FindAllNumbers(s, i) ==
  IF i > Len(s) THEN <<>>
  ELSE LET signed == s[i] \in {"-", "+"} /\ i + 1 <= Len(s) /\ IsDigit(s[i + 1])
           start == IF signed THEN i + 1 ELSE i
       IN IF ~(signed \/ IsDigit(s[i])) THEN FindAllNumbers(s, i + 1)
          ELSE LET j == DigitsEnd(s, start)
                   grp == j + 1 <= Len(s) /\ s[j] \in {".", ","} /\ IsDigit(s[j + 1])
                   k == IF grp THEN DigitsEnd(s, j + 1) ELSE j
               IN <<Slice(s, i, k - 1)>> \o FindAllNumbers(s, k)

\* nums of parse_amount: float(match.replace(",", "")) of each match, a
\* match that raises ValueError skipped
RECURSIVE TokenValues(_)
TokenValues(toks) ==
  IF toks = <<>> THEN <<>>
  ELSE LET x == PyFloatStr(RemoveCommas(Head(toks))) IN
       (IF x = ValueError THEN <<>> ELSE <<x>>) \o TokenValues(Tail(toks))

\* the regular-expression fallback of parse_amount
FallbackAmount(text) ==
  LET nums == TokenValues(FindAllNumbers(text, 1)) IN
  IF nums = <<>> THEN DecZero ELSE DecMaxOf(nums)

\* invoice_ocr_simple.parse_amount
parse_amount(reply) ==
  LET val == reply.mem["total"]
      direct ==
        IF IsDict(reply) /\ val # Absent
        THEN IF IsNumber(val) THEN FloatOfNumber(val)
             ELSE IF val.t = "str" THEN FloatOfString(val.v)
             ELSE ValueError
        ELSE ValueError
  IN IF direct # ValueError THEN direct ELSE FallbackAmount(TextOf(reply))

\* InvoiceInfo() with its defaults
DefaultInfo ==
  [invoice_no |-> <<>>, issue_date |-> <<>>, seller |-> <<>>, buyer |-> <<>>,
   total |-> DecZero, tax |-> DecZero, subtotal |-> DecZero,
   items |-> <<>>, notes |-> <<>>]

\* TextField without the .strip() (a mutant of the code)
TextField_Unstripped(reply, key) == PyStr(DictGet(reply, key, JStr(<<>>)))

\* str(data.get(key, "")).strip()
TextField(reply, key) == Strip(PyStr(DictGet(reply, key, JStr(<<>>))))

\* one pass of the loop over ["total", "tax", "subtotal"]
NumberField(reply, key) ==
  LET val == DictGet(reply, key, JNum(<<"0">>)) IN
  IF IsNumber(val) THEN FloatOfNumber(val)
  ELSE IF val.t = "str"
       THEN LET x == FloatOfString(val.v) IN IF x = ValueError THEN DecZero ELSE x
       ELSE DefaultInfo[key]

\* invoice_ocr_sum.parse_invoice_info
parse_invoice_info(reply) ==
  IF IsDict(reply)
  THEN [invoice_no |-> TextField(reply, "invoice_no"),
        issue_date |-> TextField(reply, "issue_date"),
        seller |-> TextField(reply, "seller"),
        buyer |-> TextField(reply, "buyer"),
        total |-> NumberField(reply, "total"),
        tax |-> NumberField(reply, "tax"),
        subtotal |-> NumberField(reply, "subtotal"),
        items |-> TextField(reply, "items"),
        notes |-> TextField(reply, "notes")]
  ELSE DefaultInfo

-----------------------------------------------------------------------------
(* The parsers on their own: SpecParse hands every enumerated response to  *)
(* each parser.                                                            *)

SeqsUpTo(S, n) == UNION {[1..k -> S] : k \in 0..n}

\* the characters of the enumerated raw texts
RawAlphabet == {"1", "7", ",", ".", "-"}

\* "合计: 1,234.56 元, 税率6%"
SampleText ==
  <<"U5408", "U8BA1", ":", " ", "1", ",", "2", "3", "4", ".", "5", "6", " ",
    "U5143", ",", " ", "U7A0E", "U7387", "6", "%">>

RawTexts == SeqsUpTo(RawAlphabet, MaxTextLen) \cup {SampleText}

Lit1234_56 == <<"1", "2", "3", "4", ".", "5", "6">>

TotalValues ==
  {Absent, JNum(<<"0">>), JNum(<<"5">>), JNum(Lit1234_56), JNum(<<"-", "5">>),
   JStr(<<"1", ",", "2", "3", "4", ".", "5", "6">>), JStr(<<>>),
   JStr(<<" ", "7", " ">>), JStr(<<"x">>), JStr(<<"-", "3">>),
   JTrue, JNull, JList}

ObjMembers ==
  [invoice_no : {Absent, JStr(<<"A", "1">>), JStr(<<" ", "A", "1", " ">>),
                 JNum(<<"1", "2">>), JNull},
   issue_date : {Absent, JStr(<<"2", "0", "2", "4", "-", "1", "2", "-", "0", "1">>)},
   seller : {Absent, JStr(<<"S">>), JStr(<<"S", " ">>)},
   buyer : {Absent, JStr(<<"B">>)},
   total : TotalValues,
   tax : {Absent, JNum(<<"6">>), JStr(<<"x">>)},
   subtotal : {Absent, JNum(<<"0", ".", "5">>)},
   items : {Absent, JStr(<<"i">>)},
   notes : {Absent, JStr(<<>>)},
   is_invoice : {Absent}]

ParseInputs == {RawReply(t) : t \in RawTexts} \cup {ObjReply(m) : m \in ObjMembers}

NoResult == [none |-> TRUE]

ParseIdle ==
  /\ p_in = RawReply(<<>>)
  /\ p_fn = "idle"
  /\ p_out = NoResult

ParseStart ==
  /\ p_in \in ParseInputs
  /\ p_fn = "none"
  /\ p_out = NoResult

Run_parse_invoice_info ==
  /\ p_fn = "none"
  /\ p_fn' = "parse_invoice_info"
  /\ p_out' = parse_invoice_info(p_in)
  /\ UNCHANGED p_in
  /\ UNCHANGED notParse

Run_parse_amount ==
  /\ p_fn = "none"
  /\ p_fn' = "parse_amount"
  /\ p_out' = parse_amount(p_in)
  /\ UNCHANGED p_in
  /\ UNCHANGED notParse

\* the total a parser run produced
ParsedTotal == IF p_fn = "parse_amount" THEN p_out ELSE p_out.total

-----------------------------------------------------------------------------
(* Properties of the parsers (checked under SpecParse) *)

TextKeys == {"invoice_no", "issue_date", "seller", "buyer", "items", "notes"}
NumberKeys == {"total", "tax", "subtotal"}

\* the value a number literal of the enumerated objects denotes
LiteralValue(lit) ==
  CASE lit = <<"0">> -> [m |-> 0, e |-> 0]
    [] lit = <<"5">> -> [m |-> 5, e |-> 0]
    [] lit = <<"6">> -> [m |-> 6, e |-> 0]
    [] lit = <<"1", "2">> -> [m |-> 12, e |-> 0]
    [] lit = <<"-", "5">> -> [m |-> 0 - 5, e |-> 0]
    [] lit = <<"0", ".", "5">> -> [m |-> 5, e |-> 1]
    [] lit = Lit1234_56 -> [m |-> 123456, e |-> 2]

\* a "total" member that is not a number, or is a negative one
NonNumericOrNegative(val) ==
  \/ val.t \in {"true", "false", "null", "list"}
  \/ val.t = "num" /\ LiteralValue(val.v).m < 0
  \/ val.t = "str" /\ (FloatOfString(val.v) = ValueError \/ FloatOfString(val.v).m < 0)

(* C3: for every response text the parsed total is >= 0, and a response    *)
(* whose "total" member is negative or non-numeric parses to exactly 0.0.  *)
C3_TotalNeverNegative ==
  p_fn # "none" =>
    /\ ParsedTotal.m >= 0
    /\ (IsDict(p_in) /\ NonNumericOrNegative(p_in.mem["total"])) => ParsedTotal = DecZero

(* The numeric tokens as the claim C4 reads them: an optional sign, digits, *)
(* any number of comma groups, an optional decimal part; one token.        *)
RECURSIVE CommaGroupsEnd(_, _)
CommaGroupsEnd(s, j) ==
  IF j + 1 <= Len(s) /\ s[j] = "," /\ IsDigit(s[j + 1])
  THEN CommaGroupsEnd(s, DigitsEnd(s, j + 1)) ELSE j

RECURSIVE GroupedTokens(_, _)
GroupedTokens(s, i) ==
  IF i > Len(s) THEN <<>>
  ELSE LET signed == s[i] \in {"-", "+"} /\ i + 1 <= Len(s) /\ IsDigit(s[i + 1])
           start == IF signed THEN i + 1 ELSE i
       IN IF ~(signed \/ IsDigit(s[i])) THEN GroupedTokens(s, i + 1)
          ELSE LET j == CommaGroupsEnd(s, DigitsEnd(s, start))
                   frac == j + 1 <= Len(s) /\ s[j] = "." /\ IsDigit(s[j + 1])
                   k == IF frac THEN DigitsEnd(s, j + 1) ELSE j
               IN <<Slice(s, i, k - 1)>> \o GroupedTokens(s, k)

GroupedMax(text) ==
  LET nums == TokenValues(GroupedTokens(text, 1)) IN
  IF nums = <<>> THEN DecZero ELSE DecMaxOf(nums)

(* C4: when structured decoding fails, parse_amount returns the maximum    *)
(* over the numeric tokens of the raw text, a comma-grouped decimal being  *)
(* one token (1,234.56 is 1234.56); 0.0 when there is no numeric token;    *)
(* 1234.56 for the sample text.                                            *)
C4_FallbackIsMaxToken ==
  (p_fn = "parse_amount" /\ ~IsDict(p_in)) =>
    /\ p_out = GroupedMax(p_in.text)
    /\ p_in.text = SampleText => p_out = [m |-> 123456, e |-> 2]

\* a response as the prompts ask for it: numbers in the numeric members,
\* strings in the text members
WellFormed(reply) ==
  /\ IsDict(reply)
  /\ \A k \in NumberKeys : reply.mem[k].t \in {"absent", "num"}
  /\ \A k \in TextKeys : reply.mem[k].t \in {"absent", "str"}

SuppliedNumber(reply, k) ==
  IF reply.mem[k] = Absent THEN DecZero ELSE LiteralValue(reply.mem[k].v)
SuppliedText(reply, k) ==
  IF reply.mem[k] = Absent THEN <<>> ELSE reply.mem[k].v

\* t is s without its leading and trailing blanks
IsTrimOf(t, s) ==
  /\ \E a, b \in 0..Len(s) :
       /\ a + b <= Len(s)
       /\ t = Slice(s, a + 1, Len(s) - b)
       /\ \A i \in 1..a : s[i] = " "
       /\ \A i \in (Len(s) - b + 1)..Len(s) : s[i] = " "
  /\ t # <<>> => (t[1] # " " /\ t[Len(t)] # " ")

(* C5 as stated: a well-formed object parses to a result whose total is    *)
(* the supplied total and whose every other field is the supplied value    *)
(* exactly, absent members keeping their defaults.                         *)
C5_RoundTripExact ==
  /\ (p_fn = "parse_invoice_info" /\ WellFormed(p_in)) =>
       /\ \A k \in NumberKeys : p_out[k] = SuppliedNumber(p_in, k)
       /\ \A k \in TextKeys : p_out[k] = SuppliedText(p_in, k)
  /\ (p_fn = "parse_amount" /\ WellFormed(p_in) /\ p_in.mem["total"] # Absent) =>
       p_out = SuppliedNumber(p_in, "total")

(* C5 as amended: the numeric fields are the supplied numbers; a text      *)
(* field is the supplied string without its leading and trailing           *)
(* whitespace; absent members keep their defaults.                         *)
C5_RoundTripStripped ==
  /\ (p_fn = "parse_invoice_info" /\ WellFormed(p_in)) =>
       /\ \A k \in NumberKeys : p_out[k] = SuppliedNumber(p_in, k)
       /\ \A k \in TextKeys : IsTrimOf(p_out[k], SuppliedText(p_in, k))
  /\ (p_fn = "parse_amount" /\ WellFormed(p_in) /\ p_in.mem["total"] # Absent) =>
       p_out = SuppliedNumber(p_in, "total")

\* a full well-formed response with a padded text member has been parsed
C5_Witness ==
  /\ p_fn = "parse_invoice_info"
  /\ WellFormed(p_in)
  /\ \A k \in Keys \ {"is_invoice"} : p_in.mem[k] # Absent
  /\ p_in.mem["total"] = JNum(Lit1234_56)
  /\ p_in.mem["invoice_no"] = JStr(<<" ", "A", "1", " ">>)
  /\ p_out.total = [m |-> 123456, e |-> 2]
  /\ p_out.invoice_no = <<"A", "1">>

-----------------------------------------------------------------------------
(* process_file(path, args, max_retries): one call, step by step.          *)

\* a provider call that fails: urlopen raising URLError, an HTTP error, ...
NetworkFailure == [kind |-> "failure", text |-> <<>>, mem |-> [k \in Keys |-> Absent]]

Members(m) == [k \in Keys |-> IF k \in DOMAIN m THEN m[k] ELSE Absent]

\* the replies a provider call draws from
R_Empty == RawReply(<<>>)
R_IsInvoice == ObjReply(Members([is_invoice |-> JTrue]))
R_NotInvoice == ObjReply(Members([is_invoice |-> JFalse]))
R_Zero == ObjReply(Members([total |-> JNum(<<"0">>)]))
R_Negative == ObjReply(Members([total |-> JNum(<<"-", "5">>), invoice_no |-> JStr(<<"A", "1">>)]))
R_Five == ObjReply(Members([total |-> JNum(<<"5">>)]))
R_Full == ObjReply(Members([total |-> JNum(Lit1234_56), invoice_no |-> JStr(<<"A", "1">>),
                            buyer |-> JStr(<<"B">>)]))

ProviderOutcomes ==
  {NetworkFailure, R_Empty, R_IsInvoice, R_NotInvoice, R_Zero, R_Negative, R_Five, R_Full}

(* call_ollama_ocr: the reply text, or an exception.  Every failure of the *)
(* provider call is re-raised as RuntimeError, with OCR_PROVIDER set and   *)
(* on the direct Ollama path alike.                                        *)
call_ollama_ocr(outcome) ==
  IF outcome.kind = "failure"
  THEN [raised |-> TRUE, exc |-> "RuntimeError", reply |-> outcome]
  ELSE [raised |-> FALSE, exc |-> "", reply |-> outcome]

\* bool(val) of a JSON value
Truthy(val) ==
  CASE val.t = "true" -> TRUE
    [] val.t \in {"false", "null", "list", "absent"} -> FALSE
    [] val.t = "str" -> val.v # <<>>
    [] val.t = "num" -> PyFloatStr(val.v).m # 0

\* validate_is_invoice with an exception turned into a rejection (a mutant)
validate_is_invoice_RejectOnError(outcome) ==
  LET r == call_ollama_ocr(outcome) IN
  IF r.raised \/ ~IsDict(r.reply) THEN FALSE
  ELSE Truthy(DictGet(r.reply, "is_invoice", JFalse))

(* validate_is_invoice: data.get("is_invoice", False) of the decoded       *)
(* reply; True when the call or the decoding raises (a reply that is not   *)
(* an object has no .get).                                                 *)
validate_is_invoice(outcome) ==
  LET r == call_ollama_ocr(outcome) IN
  IF r.raised \/ ~IsDict(r.reply) THEN TRUE
  ELSE Truthy(DictGet(r.reply, "is_invoice", JFalse))

\* the error strings of process_file
ErrNonInvoice == "NonInvoice"            \* "非发票"
ErrNoAmount == "OcrFailed:NoAmount"      \* "OCR 失败: 未识别到金额"
ErrNetwork == "NetworkError"             \* "Ollama 网络错误: ..."
ErrOcr == "OcrFailed"                    \* "OCR 失败: ..."
ErrPreprocess == "PreprocessFailed"      \* "预处理失败: ..."

FileIdle ==
  /\ is_pdf = FALSE
  /\ max_retries = 0
  /\ pc = "idle"
  /\ retry_count = 0
  /\ info = DefaultInfo
  /\ errors = <<>>
  /\ tmpdirs = 0
  /\ calls = <<>>
  /\ rasters = <<>>
  /\ sleeps = <<>>

\* process_file is entered: errors = [], info = InvoiceInfo(), retry_count = 0
FileStart ==
  /\ is_pdf \in BOOLEAN
  /\ max_retries \in 0..MaxRetries
  /\ pc = "while"
  /\ retry_count = 0
  /\ info = DefaultInfo
  /\ errors = <<>>
  /\ tmpdirs = 0
  /\ calls = <<>>
  /\ rasters = <<>>
  /\ sleeps = <<>>

\* "if retry_count < max_retries" with the last retry left out (a mutant)
CanRetry_OffByOne == retry_count + 1 < max_retries

\* a retry test that lets one retry too many through
CanRetry_OneMore == retry_count <= max_retries

\* "if retry_count < max_retries", the test of every retry branch
CanRetry == retry_count < max_retries

\* validation on every attempt (a mutant)
NeedsValidation_EveryAttempt == TRUE

\* "retry_count == 0 and ...": the validation is asked for on the first pass only
NeedsValidation == retry_count = 0

\* leaving the with block without removing its directory (a mutant)
LeaveTmp_Leak(dirs) == dirs

\* TemporaryDirectory.__exit__: the directory of the with block is removed,
\* however the block is left; the image branch has no with block
LeaveTmp(dirs) == IF dirs > 0 THEN dirs - 1 ELSE dirs

(* A retry branch: "retry_count += 1; time.sleep(delay); continue" while   *)
(* retries are left, else "errors.append(text); return info, errors".      *)
(* Leaving the with block removes the temporary directory.                 *)
RetryOrGiveUp(delay, text) ==
  /\ tmpdirs' = LeaveTmp(tmpdirs)
  /\ IF CanRetry
     THEN /\ retry_count' = retry_count + 1
          /\ sleeps' = Append(sleeps, delay)
          /\ pc' = "while"
          /\ UNCHANGED errors
     ELSE /\ errors' = Append(errors, text)
          /\ pc' = "done"
          /\ UNCHANGED <<retry_count, sleeps>>

\* a test that takes any non-zero amount for a recognized one
AmountFound_NonZero(parsed) == parsed.total.m # 0

\* "if info.total > 0": the amount was recognized (lines 461 and 495)
AmountFound(parsed) == parsed.total.m > 0

\* the delay and the error text of the handler that catches exception exc
HandlerDelay(exc) == IF exc \in {"HTTPError", "URLError"} THEN 3 ELSE 2
HandlerText(exc) == IF exc \in {"HTTPError", "URLError"} THEN ErrNetwork ELSE ErrOcr

(* "while retry_count <= max_retries:" and the branch on the suffix; a PDF *)
(* gets its temporary directory here.                                      *)
PF_While ==
  /\ pc = "while"
  /\ IF retry_count > max_retries
     THEN pc' = "done" /\ UNCHANGED tmpdirs
     ELSE IF is_pdf
          THEN pc' = "rasterize" /\ tmpdirs' = tmpdirs + 1
          ELSE /\ pc' = IF NeedsValidation THEN "validate" ELSE "extract"
               /\ UNCHANGED tmpdirs
  /\ UNCHANGED <<is_pdf, max_retries, retry_count, info, errors, calls, rasters, sleeps>>
  /\ UNCHANGED notFile

(* run_pdftoppm_first_page(path, Path(tmp)): returns the PNG, or raises    *)
(* (no pdftoppm, exit code, no output file), which the outer handler       *)
(* catches.                                                                *)
PF_Rasterize ==
  /\ pc = "rasterize"
  /\ \E ok \in BOOLEAN :
       /\ rasters' = Append(rasters, ok)
       /\ IF ok
          THEN /\ pc' = IF NeedsValidation THEN "validate" ELSE "extract"
               /\ UNCHANGED <<retry_count, errors, tmpdirs, sleeps>>
          ELSE RetryOrGiveUp(2, ErrPreprocess)
  /\ UNCHANGED <<is_pdf, max_retries, info, calls>>
  /\ UNCHANGED notFile

(* "if retry_count == 0 and not validate_is_invoice(...)": one provider    *)
(* call with VALIDATE_PROMPT; a rejection returns at once.                 *)
PF_Validate ==
  /\ pc = "validate"
  /\ \E outcome \in ProviderOutcomes :
       /\ calls' = Append(calls, [purpose |-> "validate", attempt |-> retry_count,
                                  outcome |-> outcome])
       /\ IF validate_is_invoice(outcome)
          THEN pc' = "extract" /\ UNCHANGED <<errors, tmpdirs>>
          ELSE /\ errors' = Append(errors, ErrNonInvoice)
               /\ tmpdirs' = LeaveTmp(tmpdirs)
               /\ pc' = "done"
  /\ UNCHANGED <<is_pdf, max_retries, retry_count, info, rasters, sleeps>>
  /\ UNCHANGED notFile

(* The inner try: call_ollama_ocr with args.prompt, parse_invoice_info,    *)
(* and the three ways on: a positive total returns, anything else retries  *)
(* or gives up.                                                            *)
PF_Extract ==
  /\ pc = "extract"
  /\ \E outcome \in ProviderOutcomes :
       LET r == call_ollama_ocr(outcome)
           parsed == parse_invoice_info(r.reply)
       IN /\ calls' = Append(calls, [purpose |-> "extract", attempt |-> retry_count,
                                     outcome |-> outcome])
          /\ IF r.raised
             THEN /\ RetryOrGiveUp(HandlerDelay(r.exc), HandlerText(r.exc))
                  /\ UNCHANGED info
             ELSE /\ info' = parsed
                  /\ IF AmountFound(parsed)
                     THEN /\ pc' = "done"
                          /\ tmpdirs' = LeaveTmp(tmpdirs)
                          /\ UNCHANGED <<retry_count, errors, sleeps>>
                     ELSE RetryOrGiveUp(2, ErrNoAmount)
  /\ UNCHANGED <<is_pdf, max_retries, rasters>>
  /\ UNCHANGED notFile

-----------------------------------------------------------------------------
(* Properties of process_file (checked under Spec) *)

IsValidate(c) == c.purpose = "validate"
IsExtract(c) == c.purpose = "extract"
ValidationCalls == SelectSeq(calls, IsValidate)
ExtractionCalls == SelectSeq(calls, IsExtract)

\* a provider call that returned a response with amount zero / above zero
ZeroAmount(outcome) ==
  outcome.kind # "failure" /\ parse_invoice_info(outcome).total = DecZero
PositiveAmount(outcome) ==
  outcome.kind # "failure" /\ parse_invoice_info(outcome).total.m > 0

RasterAlwaysSucceeded == \A i \in 1..Len(rasters) : rasters[i]
FailedRasters == Cardinality({i \in 1..Len(rasters) : ~rasters[i]})
Returned == pc = "done"

(* C1 as stated, the provider's calls counted from the first one issued    *)
(* for the document: for every k <= max_retries, zero-amount responses on  *)
(* calls 1..k and a positive amount on call k+1 make process_file return   *)
(* that amount with an empty error list.                                   *)
C1_RetryCountedFromFirstCall ==
  \A k \in 0..max_retries :
    ( /\ Returned
      /\ RasterAlwaysSucceeded
      /\ Len(calls) >= k + 1
      /\ \A i \in 1..k : ZeroAmount(calls[i].outcome)
      /\ PositiveAmount(calls[k + 1].outcome) )
    => /\ info.total = parse_invoice_info(calls[k + 1].outcome).total
       /\ errors = <<>>

(* C1 as amended: the calls are counted among the extraction calls (the    *)
(* validation call, the provider's first call for the document, is not one *)
(* of them and must not reject the document).  For every k such that k     *)
(* plus the number of attempts lost in rasterization is <= max_retries:    *)
(* after zero-amount responses on the first k extraction calls, extraction *)
(* call k+1 is issued, and a positive amount on it is returned with an     *)
(* empty error list.                                                       *)
C1_RetryCountedFromFirstExtraction ==
  ( /\ Returned
    /\ \A i \in 1..Len(ValidationCalls) :
         validate_is_invoice(ValidationCalls[i].outcome) )
  => \A k \in 0..max_retries :
       ( /\ k + FailedRasters <= max_retries
         /\ Len(ExtractionCalls) >= k
         /\ \A i \in 1..k : ZeroAmount(ExtractionCalls[i].outcome) )
       => /\ Len(ExtractionCalls) >= k + 1
          /\ PositiveAmount(ExtractionCalls[k + 1].outcome)
             => /\ info.total = parse_invoice_info(ExtractionCalls[k + 1].outcome).total
                /\ errors = <<>>

\* max_retries = 3: zero on extraction calls 1 and 2, 1234.56 on call 3
C1_Witness ==
  /\ Returned
  /\ max_retries = 3
  /\ Len(calls) = 4
  /\ calls[1].purpose = "validate"
  /\ calls[2].outcome = R_Zero
  /\ calls[3].outcome = R_Zero
  /\ calls[4].outcome = R_Full
  /\ info.total = [m |-> 123456, e |-> 2]
  /\ errors = <<>>

AllCallsFailed == \A i \in 1..Len(calls) : calls[i].outcome = NetworkFailure

(* C2 as stated: when every provider call raises a network error,          *)
(* process_file returns a default InvoiceInfo and a non-empty error list   *)
(* after exactly max_retries + 1 provider calls.                           *)
C2_FailureAfterNPlus1Calls ==
  (Returned /\ RasterAlwaysSucceeded /\ AllCallsFailed)
  => /\ info = DefaultInfo
     /\ errors # <<>>
     /\ Len(calls) = max_retries + 1

(* C2 as amended: when every provider call raises, process_file returns a  *)
(* default InvoiceInfo and a non-empty error list after max_retries + 1    *)
(* attempts, each of which either fails in rasterization or issues one     *)
(* extraction call, plus the validation call of the first attempt: with no *)
(* rasterization failure the provider is invoked max_retries + 2 times.    *)
C2_FailureAfterNPlus2Calls ==
  (Returned /\ AllCallsFailed)
  => /\ info = DefaultInfo
     /\ errors # <<>>
     /\ Len(ExtractionCalls) + FailedRasters = max_retries + 1
     /\ Len(ValidationCalls) <= 1
     /\ RasterAlwaysSucceeded =>
          /\ Len(calls) = max_retries + 2
          /\ IsValidate(calls[1])

\* max_retries = 2 and every call failed: four calls
C2_Witness ==
  /\ Returned
  /\ max_retries = 2
  /\ AllCallsFailed
  /\ Len(calls) = 4
  /\ errors = <<ErrOcr>>
  /\ info = DefaultInfo

\* the validation call's response was undecodable, or the call failed
ValidationBroke(outcome) == outcome.kind = "failure" \/ ~IsDict(outcome)
\* the validation call's response was decoded and says "not an invoice"
ValidationNegative(outcome) ==
  /\ outcome.kind = "obj"
  /\ ~Truthy(DictGet(outcome, "is_invoice", JFalse))

(* C9: a negative validation result ends process_file at once with a       *)
(* default InvoiceInfo, the single non-invoice marker as error list and no *)
(* extraction call; a validation call that fails, or whose response cannot *)
(* be decoded, lets the document through: the extraction call follows.     *)
C9_ValidationGate ==
  \A i \in 1..Len(calls) :
    IsValidate(calls[i]) =>
      /\ ValidationNegative(calls[i].outcome) =>
           /\ Returned
           /\ info = DefaultInfo
           /\ errors = <<ErrNonInvoice>>
           /\ ExtractionCalls = <<>>
           /\ Len(calls) = i
      /\ ValidationBroke(calls[i].outcome) =>
           /\ ErrNonInvoice \notin {errors[j] : j \in 1..Len(errors)}
           /\ IF Len(calls) = i THEN pc = "extract" ELSE IsExtract(calls[i + 1])

\* a rejected document has returned
C9_Witness ==
  /\ Returned
  /\ calls = <<[purpose |-> "validate", attempt |-> 0, outcome |-> R_NotInvoice]>>
  /\ errors = <<ErrNonInvoice>>
  /\ info = DefaultInfo

(* C10: exactly one validation call per document, never repeated on a      *)
(* retry, and issued before every extraction call, also after an attempt   *)
(* that failed in rasterization.                                           *)
C10_ValidationBeforeExtraction ==
  /\ Len(ValidationCalls) <= 1
  /\ calls # <<>> => IsValidate(calls[1])

-----------------------------------------------------------------------------
(* validate_and_analyze: the batch analysis over the outcome list          *)
(* [(path, info, errors)].  Amounts are the exact decimals above; the sums *)
(* and the mean of the amounts of AnalyzeTotals are exact in binary        *)
(* floating point for the batch sizes explored.                            *)

DecAdd(a, b) ==
  IF a.e >= b.e THEN MkDec(a.m + b.m * Pow10(a.e - b.e), a.e)
  ELSE MkDec(a.m * Pow10(b.e - a.e) + b.m, b.e)
DecOfInt(n) == MkDec(n, 0)
DecTimes(a, n) == MkDec(a.m * n, a.e)

\* sum() that leaves out the outcomes with an error
RECURSIVE SumTotals_ValidOnly(_)
SumTotals_ValidOnly(invs) ==
  IF invs = <<>> THEN DecZero
  ELSE IF invs[Len(invs)].errors # <<>>
       THEN SumTotals_ValidOnly(Slice(invs, 1, Len(invs) - 1))
       ELSE DecAdd(SumTotals_ValidOnly(Slice(invs, 1, Len(invs) - 1)),
                   invs[Len(invs)].info.total)

\* the count without its "and not errs"
ValidCount_ErrorsIgnored(invs) ==
  Cardinality({i \in 1..Len(invs) : DecPos(invs[i].info.total)})

\* "sum(info.total for _, info, _ in invs)", left to right from 0
RECURSIVE SumTotals(_)
SumTotals(invs) ==
  IF invs = <<>> THEN DecZero
  ELSE DecAdd(SumTotals(Slice(invs, 1, Len(invs) - 1)),
              invs[Len(invs)].info.total)

\* "sum(1 for _, info, errs in invs if info.total > 0 and not errs)"
ValidCount(invs) ==
  Cardinality({i \in 1..Len(invs) :
                 DecPos(invs[i].info.total) /\ invs[i].errors = <<>>})

\* the loop of lines 546-550: invoice_nos is the dict of the numbers seen so
\* far, and a number already in it is appended once more at every later
\* occurrence
RECURSIVE FindDuplicates(_, _, _)
FindDuplicates(invs, i, invoice_nos) ==
  IF i > Len(invs) THEN <<>>
  ELSE LET no == invs[i].info.invoice_no IN
       IF no = <<>> THEN FindDuplicates(invs, i + 1, invoice_nos)
       ELSE (IF no \in invoice_nos THEN <<no>> ELSE <<>>)
            \o FindDuplicates(invs, i + 1, invoice_nos \cup {no})

\* info.issue_date[:7] and info.seller[:20]
Prefix(s, n) == Slice(s, 1, IF Len(s) < n THEN Len(s) ELSE n)
MonthLen == 7
SellerLen == 20

Range(invs) == {invs[i] : i \in 1..Len(invs)}

\* a grouping loop (lines 553-562 and 565-571): one entry per key, holding
\* the count and the summed total of the outcomes with that key
GroupBy(invs, keyOf) ==
  LET members(k) == SelectSeq(invs, LAMBDA d : keyOf[d] = k)
      keys == {keyOf[invs[i]] : i \in 1..Len(invs)} \ {<<>>}
  IN [k \in keys |-> [count |-> Len(members(k)), total |-> SumTotals(members(k))]]

\* a month key without the [:7]
MonthOf_WholeDate(d) == d.info.issue_date

MonthOf(d) == Prefix(d.info.issue_date, MonthLen)
SellerOf(d) == Prefix(d.info.seller, SellerLen)

RangeLow == 1000
RangeHigh == 10000

\* lines 574-581
AmountRanges(invs) ==
  LET pos == {i \in 1..Len(invs) : DecPos(invs[i].info.total)}
      low == {i \in pos : DecLess(invs[i].info.total, DecOfInt(RangeLow))}
      mid == {i \in pos \ low : DecLess(invs[i].info.total, DecOfInt(RangeHigh))}
  IN [low |-> Cardinality(low), mid |-> Cardinality(mid),
      high |-> Cardinality(pos \ (low \cup mid))]

OutlierFactor == 3

\* "info.total > avg_amount * 3" with avg_amount = total_amount / total_count
AboveThreshold(total, total_amount, total_count) ==
  DecLess(DecTimes(total_amount, OutlierFactor), DecTimes(total, total_count))

\* the test of line 587
IsOutlier(total, total_amount, total_count) ==
  DecPos(total) /\ AboveThreshold(total, total_amount, total_count)

\* lines 584-588: one warning per flagged outcome, in list order
Warnings(invs) ==
  IF Len(invs) > 0
  THEN LET flagged(d) == IsOutlier(d.info.total, SumTotals(invs), Len(invs))
           note(d) == [name |-> d.path, total |-> d.info.total]
           hits == SelectSeq(invs, flagged)
       IN [i \in 1..Len(hits) |-> note(hits[i])]
  ELSE <<>>

validate_and_analyze(invs) ==
  [ total_count |-> Len(invs),
    valid_count |-> ValidCount(invs),
    total_amount |-> SumTotals(invs),
    duplicates |-> FindDuplicates(invs, 1, {}),
    warnings |-> Warnings(invs),
    by_month |-> GroupBy(invs, [d \in Range(invs) |-> MonthOf(d)]),
    by_seller |-> GroupBy(invs, [d \in Range(invs) |-> SellerOf(d)]),
    by_amount_range |-> AmountRanges(invs) ]

\* a function that uses its argument up, as it would if it popped the
\* outcomes off the list it is given
ArgumentAfter_Drained(invs) == <<>>

\* The list after the call.  The function reads invoices in six for loops
\* and in len() and sum(); no statement of lines 531-590 assigns to the list,
\* to one of its tuples, to a field of an info or to an error list, and
\* analysis, invoice_nos and avg_amount are locals made anew by each call.
ArgumentAfter(invs) == invs

(* The batches analysed: main's loop (lines 836-844) appends one outcome   *)
(* per file.  process_file returns a positive total with no error, or a    *)
(* total <= 0 with one error; validate_and_analyze takes any list of       *)
(* outcomes, so a positive total that carries an error is drawn as well.   *)
INV001 == <<"I", "N", "V", "-", "0", "0", "1">>
INV002 == <<"I", "N", "V", "-", "0", "0", "2">>
InvoiceNos == {<<>>, INV001, INV002}
AnalyzeTotals == {DecOfInt(0 - 100), DecZero, DecOfInt(100), DecOfInt(1000)}
Date0115 == <<"2", "0", "2", "4", "-", "0", "1", "-", "1", "5">>
Date0120 == <<"2", "0", "2", "4", "-", "0", "1", "-", "2", "0">>
Date0203 == <<"2", "0", "2", "4", "-", "0", "2", "-", "0", "3">>
DateYearOnly == <<"2", "0", "2", "4">>
\* two seller names that differ in their last character only, the 21st
SellerStem ==
  <<"x", "x", "x", "x", "x", "x", "x", "x", "x", "x",
    "x", "x", "x", "x", "x", "x", "x", "x", "x", "x">>
SellerA == SellerStem \o <<"A">>
SellerB == SellerStem \o <<"B">>
SellerShort == <<"S">>

\* the dates and the sellers of the outcomes drawn: two dates of January and
\* one of February, a date of four characters and no date; two long sellers,
\* a short one and none
DateOf(no, total, errs) ==
  IF no = INV001 THEN (IF errs = <<>> THEN Date0115 ELSE Date0120)
  ELSE IF no = INV002 THEN Date0203
  ELSE IF total = DecZero THEN DateYearOnly ELSE <<>>
NameOf(total, errs) ==
  IF ~DecPos(total) THEN <<>>
  ELSE IF errs # <<>> THEN SellerShort
  ELSE IF total = DecOfInt(100) THEN SellerA ELSE SellerB

ErrorLists(total) ==
  IF DecPos(total) THEN {<<>>, <<ErrNoAmount>>} ELSE {<<ErrNoAmount>>}

OutcomeOf(path, no, total, errs) ==
  [ path |-> path,
    info |-> [DefaultInfo EXCEPT
                !.invoice_no = no,
                !.total = total,
                !.issue_date = DateOf(no, total, errs),
                !.seller = NameOf(total, errs)],
    errors |-> errs ]

AnalyzeIdle ==
  invoices = <<>> /\ analysis = NoResult /\ passed = NoResult /\ analysis_again = NoResult
AnalyzeStart ==
  invoices = <<>> /\ analysis = NoResult /\ passed = NoResult /\ analysis_again = NoResult

\* main, lines 838-844: the outcome of the next file is appended
Main_Append ==
  /\ analysis = NoResult
  /\ Len(invoices) < MaxBatch
  /\ \E no \in InvoiceNos, total \in AnalyzeTotals :
       \E errs \in ErrorLists(total) :
         invoices' = Append(invoices, OutcomeOf(Len(invoices) + 1, no, total, errs))
  /\ UNCHANGED <<analysis, passed, analysis_again, notAnalyze>>

\* main, line 848: the call returns the analysis and leaves the list as the
\* body of the function left it
Main_Analyze ==
  /\ analysis = NoResult
  /\ analysis' = validate_and_analyze(invoices)
  /\ invoices' = ArgumentAfter(invoices)
  /\ passed' = [list |-> invoices]
  /\ UNCHANGED <<analysis_again, notAnalyze>>

Analyzed == analysis # NoResult

\* a caller that holds on to the list calls validate_and_analyze once more
Call_Again ==
  /\ Analyzed
  /\ analysis_again = NoResult
  /\ analysis_again' = validate_and_analyze(invoices)
  /\ invoices' = ArgumentAfter(invoices)
  /\ UNCHANGED <<analysis, passed, notAnalyze>>

AnalyzedAgain == analysis_again # NoResult

-----------------------------------------------------------------------------
(* Properties of validate_and_analyze (checked under SpecAnalyze) *)

Occurrences(s, x) == Cardinality({i \in 1..Len(s) : s[i] = x})
Holders(no) == {i \in 1..Len(invoices) : invoices[i].info.invoice_no = no}

(* C6: duplicates lists each duplicated invoice number exactly once: a     *)
(* number shared by m >= 2 outcomes has exactly one entry whatever m is, a *)
(* number held by one outcome has none, and the empty number has none.     *)
C6_EachDuplicateOnce ==
  Analyzed =>
    /\ \A no \in InvoiceNos \ {<<>>} :
         Occurrences(analysis.duplicates, no)
           = IF Cardinality(Holders(no)) >= 2 THEN 1 ELSE 0
    /\ Occurrences(analysis.duplicates, <<>>) = 0

\* total > 3 * (sum / n), in exact arithmetic
AboveThreeMeans(i) ==
  DecLess(DecTimes(SumTotals(invoices), 3),
          DecTimes(invoices[i].info.total, Len(invoices)))

(* C7: the outlier warnings are those of exactly the outcomes whose total  *)
(* is strictly greater than 3 times the batch mean, one warning each, and  *)
(* an empty batch has no warning.                                          *)
C7_OutlierExactlyAboveThreeMeans ==
  Analyzed =>
    /\ \A i \in 1..Len(invoices) :
         Occurrences([j \in 1..Len(analysis.warnings) |-> analysis.warnings[j].name], i)
           = IF AboveThreeMeans(i) THEN 1 ELSE 0
    /\ invoices = <<>> => analysis.warnings = <<>>

-----------------------------------------------------------------------------
(* The GUI: InvoiceOCRApp.  The UI thread runs start_processing,           *)
(* stop_processing and check_message_queue one at a time; every            *)
(* start_processing launches a worker thread running process_invoices.     *)
(* The worker steps are cut where the thread reads self.processing or      *)
(* blocks in a provider call.  The text of the log widget is not modelled. *)

Modes == {"simple", "full"}
\* what processing one document gives: a positive total with an empty error
\* list, or an error list with one entry
ProcessResults == {"ok", "error"}

LogMsg == [type |-> "log", data |-> 0]
ProgressMsg(pct) == [type |-> "progress", data |-> pct]
DoneMsg == [type |-> "done", data |-> 0]

NewWorker ==
  [ state |-> "started",   \* "started", "loop", "inflight", "report", "finished"
    mode |-> "full",       \* the mode the thread read from self.config
    files |-> 0,           \* len(files)
    idx |-> 1,             \* the loop index
    outs |-> <<>>,         \* the local list invoices (full mode)
    count |-> 0,           \* documents processed (simple mode)
    cancelled |-> FALSE,   \* history: stop was requested while it was running
    launched_with |-> 0,   \* history: self.config.max_retries when it was started
    misread |-> FALSE ]    \* history: it read another max_retries than that

Live(w) == workers[w].state # "finished"
FullPercent == 100
\* AppConfig.max_retries and AppConfig.mode as the dataclass declares them
DefaultRetries == 3
DefaultMode == "simple"
\* what the retry spinbox may hold when the settings are saved
RetryChoices == {0, DefaultRetries}

\* start_processing (lines 392-431); with self.processing set it returns at
\* once, and a disabled start button is not clickable
start_processing ==
  /\ ui_pc = "idle"
  /\ start_btn = "normal"
  /\ ~processing
  /\ Len(workers) < MaxStarts
  /\ \E mode \in Modes : config_mode' = mode
  /\ processing' = TRUE
  /\ start_btn' = "disabled"
  /\ stop_btn' = "normal"
  /\ progress_var' = 0
  /\ workers' = Append(workers, [NewWorker EXCEPT !.launched_with = config_retries])
  /\ UNCHANGED <<config_retries, message_queue, ui_pc, notGui>>

\* stop_processing (lines 433-438)
stop_processing ==
  /\ ui_pc = "idle"
  /\ stop_btn = "normal"
  /\ processing' = FALSE
  /\ start_btn' = "normal"
  /\ stop_btn' = "disabled"
  /\ workers' = [w \in DOMAIN workers |->
                   IF Live(w) THEN [workers[w] EXCEPT !.cancelled = TRUE]
                   ELSE workers[w]]
  /\ UNCHANGED <<progress_var, config_mode, config_retries, message_queue, ui_pc, notGui>>

\* save_settings (lines 729-745): the widgets are copied into self.config;
\* the button is never disabled
save_settings ==
  /\ ui_pc = "idle"
  /\ \E retries \in RetryChoices : config_retries' = retries
  /\ UNCHANGED <<processing, start_btn, stop_btn, progress_var, config_mode,
                 message_queue, ui_pc, workers, notGui>>

\* reset_settings (lines 747-759): self.config = AppConfig()
reset_settings ==
  /\ ui_pc = "idle"
  /\ config_retries' = DefaultRetries
  /\ config_mode' = DefaultMode
  /\ UNCHANGED <<processing, start_btn, stop_btn, progress_var,
                 message_queue, ui_pc, workers, notGui>>

\* check_message_queue (lines 707-722): one turn of its loop, on the
\* oldest message
check_message_queue_Get ==
  /\ message_queue # <<>>
  /\ ui_pc' = "draining"
  /\ message_queue' = Tail(message_queue)
  /\ LET msg == Head(message_queue) IN
       CASE msg.type = "log" ->
              UNCHANGED <<processing, start_btn, stop_btn, progress_var>>
         [] msg.type = "progress" ->
              /\ progress_var' = msg.data
              /\ UNCHANGED <<processing, start_btn, stop_btn>>
         [] msg.type = "done" ->
              /\ processing' = FALSE
              /\ start_btn' = "normal"
              /\ stop_btn' = "disabled"
              /\ progress_var' = FullPercent
  /\ UNCHANGED <<config_mode, config_retries, workers, notGui>>

\* check_message_queue (lines 723-727): queue.Empty ends the loop
check_message_queue_Empty ==
  /\ ui_pc = "draining"
  /\ message_queue = <<>>
  /\ ui_pc' = "idle"
  /\ UNCHANGED <<processing, start_btn, stop_btn, progress_var, config_mode,
                 config_retries, message_queue, workers, notGui>>

\* process_invoices, lines 447-511: the provider is created and the files
\* are scanned; an exception (lines 703-705) or an empty scan (503-506)
\* ends the thread
Worker_Setup(w) ==
  /\ workers[w].state = "started"
  /\ \E raised \in BOOLEAN, n \in 0..MaxFiles :
       IF raised \/ n = 0
       THEN /\ workers' = [workers EXCEPT ![w].state = "finished"]
            /\ message_queue' = message_queue \o <<LogMsg, DoneMsg>>
       ELSE /\ workers' = [workers EXCEPT ![w].state = "loop",
                                          ![w].mode = config_mode,
                                          ![w].files = n]
            /\ message_queue' = Append(message_queue, LogMsg)
  /\ UNCHANGED <<processing, start_btn, stop_btn, progress_var, config_mode,
                 config_retries, ui_pc, notGui>>

\* the head of the loops (lines 516-523 and 577-584)
Worker_LoopHead(w) ==
  /\ workers[w].state = "loop"
  /\ IF workers[w].idx > workers[w].files \/ ~processing
     THEN /\ workers' = [workers EXCEPT ![w].state = "report"]
          /\ UNCHANGED message_queue
     ELSE /\ workers' = [workers EXCEPT ![w].state = "inflight"]
          /\ message_queue' =
               Append(message_queue,
                      ProgressMsg((workers[w].idx * FullPercent) \div workers[w].files))
  /\ UNCHANGED <<processing, start_btn, stop_btn, progress_var, config_mode,
                 config_retries, ui_pc, notGui>>

\* the body of the loops (lines 525-531 and 586-638): in full mode
\* self.config.max_retries is read for the call of process_file (line 586);
\* process_file returns,
\* the two enrichment passes swallow their exceptions, the outcome is
\* appended
Worker_Process(w) ==
  /\ workers[w].state = "inflight"
  /\ \E result \in ProcessResults :
       workers' = [workers EXCEPT
         ![w].state = "loop",
         ![w].idx = @ + 1,
         ![w].count = IF workers[w].mode = "simple" THEN @ + 1 ELSE @,
         ![w].misread = IF workers[w].mode = "full"
                        THEN @ \/ config_retries # workers[w].launched_with
                        ELSE @,
         ![w].outs = IF workers[w].mode = "full"
                     THEN Append(@, [path |-> workers[w].idx, result |-> result])
                     ELSE @]
  /\ message_queue' = Append(message_queue, LogMsg)
  /\ UNCHANGED <<processing, start_btn, stop_btn, progress_var, config_mode,
                 config_retries, ui_pc, notGui>>

\* a thread whose last lines post the log but no "done"
Worker_Report_NoDone(w) ==
  /\ workers[w].state = "report"
  /\ workers' = [workers EXCEPT ![w].state = "finished"]
  /\ message_queue' = Append(message_queue, LogMsg)
  /\ UNCHANGED <<processing, start_btn, stop_btn, progress_var, config_mode,
                 config_retries, ui_pc, notGui>>

\* the summary and the reports (lines 533-565 and 640-701), or the
\* exception handler (lines 703-705): log lines, then "done"
Worker_Report(w) ==
  /\ workers[w].state = "report"
  /\ workers' = [workers EXCEPT ![w].state = "finished"]
  /\ message_queue' = message_queue \o <<LogMsg, DoneMsg>>
  /\ UNCHANGED <<processing, start_btn, stop_btn, progress_var, config_mode,
                 config_retries, ui_pc, notGui>>

process_invoices ==
  \E w \in DOMAIN workers :
    Worker_Setup(w) \/ Worker_LoopHead(w) \/ Worker_Process(w) \/ Worker_Report(w)

-----------------------------------------------------------------------------
(* Properties of a batch run (checked under SpecGui) *)

LoopLeft(w) == workers[w].state \in {"report", "finished"}

(* C8: in a batch run that is not cancelled, every discovered file has     *)
(* exactly one outcome in the outcome list, in discovery order, once the   *)
(* loop over the files is left.                                            *)
C8_OneOutcomePerFile ==
  \A w \in DOMAIN workers :
    (LoopLeft(w) /\ ~workers[w].cancelled /\ workers[w].mode = "full")
    => /\ Len(workers[w].outs) = workers[w].files
       /\ \A i \in 1..Len(workers[w].outs) : workers[w].outs[i].path = i

-----------------------------------------------------------------------------
(* The body of the GUI loop for one document (process_invoices, lines      *)
(* 586-638): process_file, then the verification pass and the              *)
(* classification pass, then the outcome is appended.  Each pass runs only *)
(* when its toggle is set and the total is positive; for a PDF it          *)
(* rasterizes the first page again into a temporary directory of its own.  *)

\* the fields the passes write, as InvoiceInfo() has them (lines 60-70)
DefaultEnrich ==
  [ invoice_type |-> "", invoice_type_name |-> "",
    expense_category |-> "", expense_category_name |-> "",
    risk_level |-> "", risk_notes |-> "", has_stamp |-> TRUE, image_quality |-> "" ]

\* what the provider answers to VERIFY_INVOICE_PROMPT: a failure, a text
\* that json.loads rejects, a JSON text that is no object, the object {} and
\* an object that sets the fields
VerifyReplies == {"failure", "raw", "list", "empty", "high_risk"}
\* the same for CLASSIFY_INVOICE_PROMPT
ClassifyReplies == {"failure", "raw", "list", "empty", "taxi"}

\* the replies that raise inside the try block of the two functions:
\* call_ollama_ocr raises, or json.loads does
RaisesInPass(reply) == reply \in {"failure", "raw"}

NoteVerifyFailed == "verify failed"       \* "验证失败: ..."

\* verify_invoice (lines 364-397): it never raises; an exception of the
\* call or of json.loads puts the failure note into the default result, and
\* a JSON text that is no object gives the default result as it is
verify_invoice(reply) ==
  CASE RaisesInPass(reply) ->
         [risk_level |-> "low", risk_notes |-> NoteVerifyFailed,
          has_stamp |-> TRUE, image_quality |-> "good"]
    [] reply = "high_risk" ->
         [risk_level |-> "high", risk_notes |-> "no stamp",
          has_stamp |-> FALSE, image_quality |-> "poor"]
    [] OTHER ->
         [risk_level |-> "low", risk_notes |-> "",
          has_stamp |-> TRUE, image_quality |-> "good"]

\* classify_invoice (lines 400-425): it never raises
classify_invoice(reply) ==
  IF reply = "taxi"
  THEN [invoice_type |-> "taxi", invoice_type_name |-> "taxi receipt",
        expense_category |-> "transport", expense_category_name |-> "transport"]
  ELSE [invoice_type |-> "other", invoice_type_name |-> "other type",
        expense_category |-> "other", expense_category_name |-> "other"]

EnrichIdle ==
  /\ enable_verify = FALSE
  /\ enable_classify = FALSE
  /\ e_pc = "idle"
  /\ enrich = DefaultEnrich
  /\ enrich_tmp = 0
  /\ enrich_log = <<>>

\* the loop body is entered: process_file is about to run
EnrichStart ==
  /\ enable_verify \in BOOLEAN
  /\ enable_classify \in BOOLEAN
  /\ e_pc = "process_file"
  /\ enrich = DefaultEnrich
  /\ enrich_tmp = 0
  /\ enrich_log = <<>>

PassWanted(toggle) == toggle /\ DecPos(info.total)

\* line 586 returns; "if self.config.enable_verify and info.total > 0" and
\* the branch on the suffix (lines 589-594)
Doc_VerifyTest ==
  /\ e_pc = "process_file"
  /\ pc = "done"
  /\ IF PassWanted(enable_verify)
     THEN IF is_pdf
          THEN e_pc' = "verify_raster" /\ enrich_tmp' = enrich_tmp + 1
          ELSE e_pc' = "verify_call" /\ UNCHANGED enrich_tmp
     ELSE e_pc' = "classify_test" /\ UNCHANGED enrich_tmp
  /\ UNCHANGED <<enable_verify, enable_classify, enrich, enrich_log, fvars, notEnrich>>

\* line 596: run_pdftoppm_first_page; its exception leaves the with block
\* and is caught at line 605
Doc_VerifyRaster ==
  /\ e_pc = "verify_raster"
  /\ \E ok \in BOOLEAN :
       /\ enrich_log' = Append(enrich_log, [pass |-> "verify", step |-> "raster", ok |-> ok])
       /\ IF ok
          THEN e_pc' = "verify_call" /\ UNCHANGED <<enrich, enrich_tmp>>
          ELSE /\ e_pc' = "classify_test"
               /\ enrich_tmp' = LeaveTmp(enrich_tmp)
               /\ enrich' = [enrich EXCEPT !.risk_notes = NoteVerifyFailed]
  /\ UNCHANGED <<enable_verify, enable_classify, fvars, notEnrich>>

\* lines 597-604: verify_invoice, the with block is left, the four fields
\* are set
Doc_VerifyCall ==
  /\ e_pc = "verify_call"
  /\ \E reply \in VerifyReplies :
       LET verify_result == verify_invoice(reply) IN
       /\ enrich_log' = Append(enrich_log,
                          [pass |-> "verify", step |-> "call", ok |-> ~RaisesInPass(reply)])
       /\ enrich' = [enrich EXCEPT !.risk_level = verify_result.risk_level,
                                   !.risk_notes = verify_result.risk_notes,
                                   !.has_stamp = verify_result.has_stamp,
                                   !.image_quality = verify_result.image_quality]
  /\ enrich_tmp' = LeaveTmp(enrich_tmp)
  /\ e_pc' = "classify_test"
  /\ UNCHANGED <<enable_verify, enable_classify, fvars, notEnrich>>

\* "if self.config.enable_classify and info.total > 0" (lines 609-613)
Doc_ClassifyTest ==
  /\ e_pc = "classify_test"
  /\ IF PassWanted(enable_classify)
     THEN IF is_pdf
          THEN e_pc' = "classify_raster" /\ enrich_tmp' = enrich_tmp + 1
          ELSE e_pc' = "classify_call" /\ UNCHANGED enrich_tmp
     ELSE e_pc' = "append" /\ UNCHANGED enrich_tmp
  /\ UNCHANGED <<enable_verify, enable_classify, enrich, enrich_log, fvars, notEnrich>>

\* line 615; its exception is swallowed at lines 624-625
Doc_ClassifyRaster ==
  /\ e_pc = "classify_raster"
  /\ \E ok \in BOOLEAN :
       /\ enrich_log' = Append(enrich_log, [pass |-> "classify", step |-> "raster", ok |-> ok])
       /\ IF ok
          THEN e_pc' = "classify_call" /\ UNCHANGED enrich_tmp
          ELSE e_pc' = "append" /\ enrich_tmp' = LeaveTmp(enrich_tmp)
  /\ UNCHANGED <<enable_verify, enable_classify, enrich, fvars, notEnrich>>

\* lines 616-623
Doc_ClassifyCall ==
  /\ e_pc = "classify_call"
  /\ \E reply \in ClassifyReplies :
       LET class_result == classify_invoice(reply) IN
       /\ enrich_log' = Append(enrich_log,
                          [pass |-> "classify", step |-> "call", ok |-> ~RaisesInPass(reply)])
       /\ enrich' = [enrich EXCEPT
                       !.invoice_type = class_result.invoice_type,
                       !.invoice_type_name = class_result.invoice_type_name,
                       !.expense_category = class_result.expense_category,
                       !.expense_category_name = class_result.expense_category_name]
  /\ enrich_tmp' = LeaveTmp(enrich_tmp)
  /\ e_pc' = "append"
  /\ UNCHANGED <<enable_verify, enable_classify, fvars, notEnrich>>

\* lines 627-638: the log line and invoices.append((path, info, errors))
Doc_Append ==
  /\ e_pc = "append"
  /\ e_pc' = "appended"
  /\ UNCHANGED <<enable_verify, enable_classify, enrich, enrich_tmp, enrich_log,
                 fvars, notEnrich>>

-----------------------------------------------------------------------------
(* Properties of the loop body (checked under SpecDoc) *)

\* the positions of the loop body that lie outside the with blocks of the
\* two passes
OutsidePasses == e_pc \in {"process_file", "classify_test", "append", "appended"}

(* C11: whenever process_file has returned, every temporary directory it   *)
(* created is removed, and outside the with blocks of the verification and *)
(* classification passes none of their temporary directories exists; a     *)
(* directory exists only while its with block is being executed.           *)
C11_TempDirsRemoved ==
  /\ Returned => tmpdirs = 0
  /\ pc \in {"rasterize", "validate", "extract"} => tmpdirs = (IF is_pdf THEN 1 ELSE 0)
  /\ OutsidePasses => enrich_tmp = 0
  /\ e_pc \in {"verify_raster", "verify_call", "classify_raster", "classify_call"}
       => enrich_tmp <= 1

\* a PDF whose process_file rasterized twice and whose two passes each
\* rasterized once has been appended, and no directory is left
C11_Witness ==
  /\ e_pc = "appended"
  /\ is_pdf
  /\ Len(rasters) = 2
  /\ Len(enrich_log) = 4
  /\ tmpdirs = 0
  /\ enrich_tmp = 0

-----------------------------------------------------------------------------
(* Properties of the UI handlers and the worker threads (checked under     *)
(* SpecGui)                                                                *)

(* C12: once stop has been requested for a running batch, the worker of    *)
(* that batch begins no further document: from the head of its loop it     *)
(* never goes on to process a file.                                        *)
C12_NoDocumentAfterStop ==
  [][\A w \in DOMAIN workers :
       (workers[w].cancelled /\ workers[w].state = "loop")
       => workers'[w].state # "inflight"]_vars

-----------------------------------------------------------------------------
(* ocr_api: the three providers and create_provider.  One HTTP exchange is *)
(* what urlopen does (a network failure, a non-2xx status, a 200) and, for *)
(* a 200, the shape of the body.                                           *)

ProviderKinds == {"ollama", "volcengine", "openrouter"}
\* the values of config["provider"] explored; NoKey is a dict without the key
NoKey == "<no key>"
ConfiguredKinds == ProviderKinds \cup {"Ollama", "azure", NoKey}

ImageSuffixes == {".png", ".PNG", ".jpg", ".jpeg", ".webp", ".gif", ".bmp"}

\* the bodies of a 200 response:
\*   garbage        not JSON
\*   not_object     JSON, but no object (a list)
\*   no_field       an object without "message" / "choices"
\*   bad_field      "message": null / "choices": []
\*   no_content     the message object has no "content"
\*   empty_content  "content": ""
\*   null_content   "content": null
\*   text           "content": "..." with a non-empty text
Bodies == {"garbage", "not_object", "no_field", "bad_field", "no_content",
           "empty_content", "null_content", "text"}
HttpExchanges ==
  {[transport |-> t, body |-> "none"] : t \in {"URLError", "HTTPError"}}
    \cup {[transport |-> "ok", body |-> b] : b \in Bodies}

Returns(value) == [raised |-> FALSE, exc |-> "", value |-> value]
Raises(exc) == [raised |-> TRUE, exc |-> exc, value |-> ""]

\* data.get("message", {}).get("content", "") and its OpenAI-format
\* counterpart data.get("choices", [{}])[0].get("message", {}).get("content", ""):
\* the value found, or the exception of the expression
ContentOf(body) ==
  CASE body \in {"garbage", "not_object", "bad_field"} -> Raises("Exception")
    [] body \in {"no_field", "no_content", "empty_content"} -> Returns("")
    [] body = "null_content" -> Returns("None")
    [] body = "text" -> Returns("reply text")

\* a falsy content: "" or None
Falsy(value) == value \in {"", "None"}

\* OllamaProvider.call_ocr, lines 51-56: every exception of the exchange
\* becomes a RuntimeError; the content is returned as found
Ollama_Reply(http) ==
  IF http.transport # "ok" THEN Raises("RuntimeError")
  ELSE LET c == ContentOf(http.body) IN
       IF c.raised THEN Raises("RuntimeError") ELSE c

\* the token providers, lines 104-117 and 213-226: "if not content: raise"
Checked_Reply(http) ==
  IF http.transport # "ok" THEN Raises("RuntimeError")
  ELSE LET c == ContentOf(http.body) IN
       IF c.raised \/ Falsy(c.value) THEN Raises("RuntimeError") ELSE c

\* the MIME type OpenRouterProvider.call_ocr puts into the data URI
\* (lines 175-182)
Lower(suffix) == IF suffix = ".PNG" THEN ".png" ELSE suffix
OpenRouter_Mime(suffix) ==
  CASE Lower(suffix) \in {".jpg", ".jpeg"} -> "image/jpeg"
    [] Lower(suffix) = ".png" -> "image/png"
    [] Lower(suffix) = ".webp" -> "image/webp"
    [] Lower(suffix) = ".gif" -> "image/gif"
    [] OTHER -> "image/jpeg"
\* the one VolcengineProvider.call_ocr writes (line 88)
Volcengine_Mime(suffix) == "image/jpeg"

\* call_ocr of the provider instance: the image is read first (outside the
\* try: an unreadable file raises OSError as it is), the request is built,
\* the exchange is made
call_ocr(instance, suffix, readable, http) ==
  IF ~readable
  THEN [request |-> "none", reply |-> Raises("OSError")]
  ELSE CASE instance.kind = "ollama" ->
              [request |-> "images: [base64]", reply |-> Ollama_Reply(http)]
         [] instance.kind = "volcengine" ->
              [request |-> Volcengine_Mime(suffix), reply |-> Checked_Reply(http)]
         [] instance.kind = "openrouter" ->
              [request |-> OpenRouter_Mime(suffix), reply |-> Checked_Reply(http)]

\* create_provider with an unknown kind served by Ollama (a mutant)
create_provider_FallBack(config) ==
  IF config.provider \in {"volcengine", "openrouter"}
  THEN [made |-> TRUE, kind |-> config.provider, exc |-> ""]
  ELSE [made |-> TRUE, kind |-> "ollama", exc |-> ""]

\* create_provider, lines 229-250; config.get("provider", "ollama")
create_provider(config) ==
  LET provider_type == IF config.provider = NoKey THEN "ollama" ELSE config.provider IN
  IF provider_type \in ProviderKinds
  THEN [made |-> TRUE, kind |-> provider_type, exc |-> ""]
  ELSE [made |-> FALSE, kind |-> "", exc |-> "ValueError"]

NotCreated == [made |-> FALSE, kind |-> "", exc |-> ""]

ApiIdle ==
  /\ api_config = [provider |-> "ollama"]
  /\ api_provider = NotCreated
  /\ api_result = NoResult

ApiStart ==
  /\ api_config \in [provider : ConfiguredKinds]
  /\ api_provider = NotCreated
  /\ api_result = NoResult

Api_create_provider ==
  /\ api_provider = NotCreated
  /\ api_provider' = create_provider(api_config)
  /\ UNCHANGED <<api_config, api_result, notApi>>

Api_call_ocr ==
  /\ api_provider.made
  /\ api_result = NoResult
  /\ \E suffix \in ImageSuffixes, readable \in BOOLEAN, http \in HttpExchanges :
       api_result' = [suffix |-> suffix, readable |-> readable, http |-> http]
                       @@ call_ocr(api_provider, suffix, readable, http)
  /\ UNCHANGED <<api_config, api_provider, notApi>>

-----------------------------------------------------------------------------
(* Properties of ocr_api (checked under SpecApi) *)

Called == api_result # NoResult

(* C13: for every provider, call_ocr either returns a non-empty reply text *)
(* or raises: a network failure, a non-2xx response and a decodable        *)
(* response whose content is absent or empty each raise the provider       *)
(* error, and an empty string is never returned.                           *)
C13_ReplyNonEmptyOrError ==
  (Called /\ api_result.readable) =>
    /\ ~api_result.reply.raised => api_result.reply.value = "reply text"
    /\ ( \/ api_result.http.transport # "ok"
         \/ api_result.http.body \in {"no_field", "no_content", "empty_content"} )
       => api_result.reply.raised /\ api_result.reply.exc = "RuntimeError"

(* C14: create_provider gives one instance of the configured kind for      *)
(* ollama, volcengine and openrouter, and for every other configured kind  *)
(* it raises the configuration error and gives no provider.                *)
C14_ProviderOfConfiguredKind ==
  api_provider # NotCreated =>
    /\ api_config.provider \in ProviderKinds
         => api_provider = [made |-> TRUE, kind |-> api_config.provider, exc |-> ""]
    /\ api_config.provider \notin ProviderKinds \cup {NoKey}
         => api_provider = [made |-> FALSE, kind |-> "", exc |-> "ValueError"]

\* an unknown kind has been refused
C14_Witness ==
  /\ api_config.provider = "azure"
  /\ api_provider.exc = "ValueError"
  /\ ~api_provider.made

-----------------------------------------------------------------------------
(* Further properties of the parsers (checked under SpecParse) *)

\* a member the parser has no decoding for: null or a list where a text or
\* a number is expected, and for a number also a string that float() refuses
UndecodableText(val) == val.t \in {"null", "list"}
UndecodableNumber(val) ==
  \/ val.t \in {"null", "list"}
  \/ val.t = "str" /\ FloatOfString(val.v) = ValueError

(* C15: the parsers return a value for every response text, and a field    *)
(* whose member cannot be decoded keeps its default: "" for a text field,  *)
(* 0.0 for a number.                                                       *)
C15_UndecodableKeepsDefault ==
  /\ p_fn = "parse_invoice_info" =>
       /\ DOMAIN p_out = DOMAIN DefaultInfo
       /\ ~IsDict(p_in) => p_out = DefaultInfo
       /\ IsDict(p_in) =>
            /\ \A k \in TextKeys :
                 UndecodableText(p_in.mem[k]) => p_out[k] = DefaultInfo[k]
            /\ \A k \in NumberKeys :
                 UndecodableNumber(p_in.mem[k]) => p_out[k] = DefaultInfo[k]
  /\ p_fn = "parse_amount" =>
       /\ p_out # ValueError
       /\ (IsDict(p_in) /\ UndecodableNumber(p_in.mem["total"])) => p_out = DecZero

-----------------------------------------------------------------------------
(* iter_invoice_files (the same function in invoice_ocr_sum and in         *)
(* invoice_ocr_simple).  A directory entry is its name, a sequence of      *)
(* characters, and whether it is a file; the order in which rglob finds    *)
(* the entries is the file system's.                                       *)

Upper ==
  <<"A", "B", "C", "D", "E", "F", "G", "H", "I", "J", "K", "L", "M",
    "N", "O", "P", "Q", "R", "S", "T", "U", "V", "W", "X", "Y", "Z">>
LowerOf ==
  <<"a", "b", "c", "d", "e", "f", "g", "h", "i", "j", "k", "l", "m",
    "n", "o", "p", "q", "r", "s", "t", "u", "v", "w", "x", "y", "z">>

\* str.lower(), a character at a time
LowerChar_Identity(c) == c

LowerChar(c) ==
  IF \E i \in 1..Len(Upper) : Upper[i] = c
  THEN LowerOf[CHOOSE i \in 1..Len(Upper) : Upper[i] = c]
  ELSE c
LowerText(s) == [i \in 1..Len(s) |-> LowerChar(s[i])]

\* str.rfind("."): the last position of a dot, 0 when there is none
RECURSIVE LastDot(_, _)
LastDot(s, i) == IF i = 0 THEN 0 ELSE IF s[i] = "." THEN i ELSE LastDot(s, i - 1)

\* PurePath.suffix: from the last dot on, unless the name starts or ends
\* with that dot
SuffixOf(name) ==
  LET i == LastDot(name, Len(name)) IN
  IF 1 < i /\ i < Len(name) THEN Slice(name, i, Len(name)) ELSE <<>>

\* "keyword in text"
Contains(text, keyword) ==
  \E i \in 1..(Len(text) - Len(keyword) + 1) :
    Slice(text, i, i + Len(keyword) - 1) = keyword

\* exts and skip_keywords, lines 430-431
Exts ==
  { <<".", "p", "d", "f">>, <<".", "p", "n", "g">>, <<".", "j", "p", "g">>,
    <<".", "j", "p", "e", "g">>, <<".", "w", "e", "b", "p">>, <<".", "b", "m", "p">>,
    <<".", "t", "i", "f">>, <<".", "t", "i", "f", "f">> }
KwItinerary == <<"i", "t", "i", "n", "e", "r", "a", "r", "y">>
KwReceipt == <<"r", "e", "c", "e", "i", "p", "t">>
KwTrip == <<"U884C", "U7A0B", "U5355">>
SkipKeywords == {KwTrip, KwItinerary, KwReceipt}

\* the test of lines 434-437 on one entry
Yielded(entry) ==
  /\ entry.is_file
  /\ LowerText(SuffixOf(entry.name)) \in Exts
  /\ ~\E keyword \in SkipKeywords : Contains(LowerText(entry.name), keyword)

\* the entries that pass, in every order the file system may list them
Orders(S) ==
  {q \in [1..Cardinality(S) -> S] : \A i, j \in 1..Cardinality(S) : i # j => q[i] # q[j]}
iter_invoice_files(entries) == Orders({e \in entries : Yielded(e)})


\* ---- the harness: one scan of a small directory tree

\* An entry with the two facts the function reads (name, is_file) and, for
\* the properties only, what the entry is: its extension in lower case
\* ("" when the name has none) and whether its name holds a skip keyword.
Entry(name, is_file, ext, keyword) ==
  [name |-> name, is_file |-> is_file, ext |-> ext, keyword |-> keyword]

SampleEntries ==
  { Entry(<<"a", ".", "p", "d", "f">>, TRUE, "pdf", FALSE),
    Entry(<<"A", ".", "P", "D", "F">>, TRUE, "pdf", FALSE),
    Entry(<<"a", ".", "t", "x", "t">>, TRUE, "txt", FALSE),
    Entry(<<"a", ".", "J", "p", "e", "g">>, TRUE, "jpeg", FALSE),
    Entry(<<"b", ".", "w", "e", "b", "p">>, TRUE, "webp", FALSE),
    Entry(<<"b", ".", "b", "m", "p">>, TRUE, "bmp", FALSE),
    Entry(<<"c", ".", "t", "i", "f">>, TRUE, "tif", FALSE),
    Entry(<<"a", ".", "t", "a", "r", ".", "t", "i", "f", "f">>, TRUE, "tiff", FALSE),
    Entry(<<"x", ".", "J", "P", "G">>, TRUE, "jpg", FALSE),
    Entry(<<"d", ".", "p", "n", "g">>, TRUE, "png", FALSE),
    Entry(<<"c", ".", "g", "i", "f">>, TRUE, "gif", FALSE),
    Entry(<<"r", "e", "c", "e", "i", "p", "t", ".", "p", "d", "f">>, TRUE, "pdf", TRUE),
    Entry(<<"R", "e", "c", "e", "i", "p", "t", ".", "P", "N", "G">>, TRUE, "png", TRUE),
    Entry(<<"x", ".", "I", "T", "I", "N", "E", "R", "A", "R", "Y", ".", "j", "p", "g">>, TRUE, "jpg", TRUE),
    Entry(<<"U884C", "U7A0B", "U5355", ".", "p", "d", "f">>, TRUE, "pdf", TRUE),
    Entry(<<"r", "e", "c", "e", "i", "p", "t", ".", "t", "x", "t">>, TRUE, "txt", TRUE),
    Entry(<<"n", "o", "e", "x", "t">>, TRUE, "", FALSE),
    Entry(<<".", "p", "d", "f">>, TRUE, "", FALSE),
    Entry(<<"p", "d", "f">>, TRUE, "", FALSE),
    Entry(<<"a", ".", "p", "d", "f">>, FALSE, "pdf", FALSE),
    Entry(<<"b", ".", "p", "n", "g">>, FALSE, "png", FALSE) }

ScanIdle == scan_fs = {} /\ scan_out = NoResult
ScanStart ==
  /\ scan_fs \in {S \in SUBSET SampleEntries : Cardinality(S) <= MaxEntries}
  /\ scan_out = NoResult

\* list(iter_invoice_files(root))
Scan_iter_invoice_files ==
  /\ scan_out = NoResult
  /\ \E paths \in iter_invoice_files(scan_fs) : scan_out' = [paths |-> paths]
  /\ UNCHANGED <<scan_fs, notScan>>

Scanned == scan_out # NoResult
Paths == Range(scan_out.paths)

(* Properties of iter_invoice_files (checked under SpecScan) *)

InvoiceExtensions == {"pdf", "png", "jpg", "jpeg", "webp", "bmp", "tif", "tiff"}

\* C16: a path is yielded if and only if it is a file whose extension, letter
\* case aside, is one of pdf, png, jpg, jpeg, webp, bmp, tif, tiff and whose
\* name, letter case aside, holds no skip keyword; in particular a file whose
\* name holds a skip keyword is never yielded.
C16_YieldedIffInvoiceFile ==
  Scanned =>
    /\ \A e \in scan_fs :
         (e \in Paths) <=>
           (e.is_file /\ e.ext \in InvoiceExtensions /\ ~e.keyword)
    /\ Paths \subseteq scan_fs
    /\ \A e \in Paths : ~e.keyword

\* a scan that yielded an upper-case invoice file and skipped an upper-case
\* keyword file of an invoice extension
C16_Witness ==
  /\ Scanned
  /\ \E e \in Paths : e.name # LowerText(e.name)
  /\ \E e \in scan_fs \ Paths :
       e.is_file /\ e.keyword /\ e.ext \in InvoiceExtensions /\ e.name # LowerText(e.name)

-----------------------------------------------------------------------------
(* Further properties of validate_and_analyze (checked under SpecAnalyze) *)

\* the outcomes among the first n that have a positive total and no error
RECURSIVE ValidAmong(_)
ValidAmong(n) ==
  IF n = 0 THEN 0
  ELSE ValidAmong(n - 1)
         + (IF DecPos(invoices[n].info.total) /\ invoices[n].errors = <<>> THEN 1 ELSE 0)

\* C17: total_count is the number of outcomes, valid_count the number of
\* outcomes with both a positive total and an empty error list, and so
\* valid_count <= total_count.
C17_CountsOfBatch ==
  Analyzed =>
    /\ analysis.total_count = Len(invoices)
    /\ analysis.valid_count = ValidAmong(Len(invoices))
    /\ analysis.valid_count <= analysis.total_count

\* a batch analysed that holds a valid outcome, an outcome with a positive
\* total and an error, and an outcome with no positive total
C17_Witness ==
  /\ Analyzed
  /\ \E i, j, k \in 1..Len(invoices) :
       /\ DecPos(invoices[i].info.total) /\ invoices[i].errors = <<>>
       /\ DecPos(invoices[j].info.total) /\ invoices[j].errors # <<>>
       /\ ~DecPos(invoices[k].info.total)
  /\ analysis.valid_count = 1
  /\ analysis.total_count = 3

\* the totals of the batches are whole numbers (no decimal places): the
\* total of outcome n
IntTotal(n) == invoices[n].info.total.m

RECURSIVE IntSumFrom(_)
IntSumFrom(n) ==
  IF n > Len(invoices) THEN 0 ELSE IntTotal(n) + IntSumFrom(n + 1)

\* C18: total_amount is the sum of the totals of all the outcomes of the
\* batch, those with a non-empty error list included.
C18_TotalAmountOfAll ==
  Analyzed => analysis.total_amount = DecOfInt(IntSumFrom(1))

\* a batch analysed in which outcomes with an error carry totals, positive
\* and negative, that do not cancel
C18_Witness ==
  /\ Analyzed
  /\ \E i, j \in 1..Len(invoices) :
       /\ invoices[i].errors # <<>> /\ DecPos(invoices[i].info.total)
       /\ invoices[j].errors # <<>> /\ DecLess(invoices[j].info.total, DecZero)
  /\ analysis.total_amount # SumTotals_ValidOnly(invoices)

\* the months and the sellers of the batches drawn, and the keys they are
\* to be grouped under
January == <<"2", "0", "2", "4", "-", "0", "1">>
February == <<"2", "0", "2", "4", "-", "0", "2">>
MonthKeyOf ==
  (Date0115 :> January) @@ (Date0120 :> January) @@ (Date0203 :> February)
    @@ (DateYearOnly :> DateYearOnly)
SellerKeyOf ==
  (SellerA :> SellerStem) @@ (SellerB :> SellerStem) @@ (SellerShort :> SellerShort)

\* the outcomes whose issue date (seller) is not empty and goes under key k
DatedUnder(k) ==
  {i \in 1..Len(invoices) :
     invoices[i].info.issue_date # <<>> /\ MonthKeyOf[invoices[i].info.issue_date] = k}
SoldUnder(k) ==
  {i \in 1..Len(invoices) :
     invoices[i].info.seller # <<>> /\ SellerKeyOf[invoices[i].info.seller] = k}

\* the sum of the totals of the outcomes of S among the first n
RECURSIVE IntSumOver(_, _)
IntSumOver(S, n) ==
  IF n = 0 THEN 0
  ELSE IntSumOver(S, n - 1) + (IF n \in S THEN IntTotal(n) ELSE 0)

\* the sum of the counts of a grouping
RECURSIVE CountsOf(_, _)
CountsOf(group, keys) ==
  IF keys = {} THEN 0
  ELSE LET k == CHOOSE x \in keys : TRUE
       IN group[k].count + CountsOf(group, keys \ {k})

\* group has the keys of under that hold an outcome, each with the count
\* and the summed total of the outcomes under it
GroupedBy(group, under) ==
  /\ DOMAIN group = {k \in DOMAIN under : under[k] # {}}
  /\ \A k \in DOMAIN group :
       /\ group[k].count = Cardinality(under[k])
       /\ group[k].total = DecOfInt(IntSumOver(under[k], Len(invoices)))

\* C24: by_month holds, for every key, the count and the summed total of
\* exactly the outcomes whose non-empty issue date has that key as its
\* first 7 characters, and by_seller those whose non-empty seller cut to 20
\* characters is the key; the counts of by_month add up to the number of
\* outcomes with an issue date, and those of by_seller to the number with a
\* seller.
C24_GroupsByMonthAndSeller ==
  Analyzed =>
    /\ GroupedBy(analysis.by_month,
                 [k \in {January, February, DateYearOnly} |-> DatedUnder(k)])
    /\ GroupedBy(analysis.by_seller, [k \in {SellerStem, SellerShort} |-> SoldUnder(k)])
    /\ CountsOf(analysis.by_month, DOMAIN analysis.by_month)
         = Cardinality({i \in 1..Len(invoices) : invoices[i].info.issue_date # <<>>})
    /\ CountsOf(analysis.by_seller, DOMAIN analysis.by_seller)
         = Cardinality({i \in 1..Len(invoices) : invoices[i].info.seller # <<>>})

\* a batch analysed with two different dates of January, a date of
\* February, and the two long sellers that share their first 20 characters
C24_Witness ==
  /\ Analyzed
  /\ \E i, j, k \in 1..Len(invoices) :
       /\ invoices[i].info.issue_date = Date0115
       /\ invoices[j].info.issue_date = Date0120
       /\ invoices[k].info.issue_date = Date0203
  /\ \E i, j \in 1..Len(invoices) :
       invoices[i].info.seller = SellerA /\ invoices[j].info.seller = SellerB
  /\ analysis.by_month[January].count = 2
  /\ analysis.by_seller[SellerStem].count >= 2

-----------------------------------------------------------------------------
(* Further properties of process_file (checked under Spec) *)

\* C25: whatever max_retries >= 0 and whatever the validation, the
\* rasterizations and the provider calls give, process_file returns an empty
\* error list exactly when the total it returns is above zero, and an error
\* list that is not empty holds one entry.
C25_ErrorsIffNoPositiveTotal ==
  Returned =>
    /\ (errors = <<>>) <=> DecPos(info.total)
    /\ Len(errors) <= 1

\* process_file gave up after its retries with the negative total of an
\* earlier response and one error
C25_Witness ==
  /\ Returned
  /\ retry_count = max_retries
  /\ max_retries >= 2
  /\ DecNeg(info.total)
  /\ Len(errors) = 1
  /\ \E i \in 1..Len(calls) : calls[i].outcome = NetworkFailure /\ IsExtract(calls[i])

\* the passes through the loop made so far: the first one and one per retry
Iterations == retry_count + 1

\* the retry budget: at most max_retries + 1 passes, in each at most one
\* rasterization and one extraction call, and every pass but a successful
\* last one used up by a failed rasterization or an extraction call
WithinBudget ==
  /\ Iterations <= max_retries + 1
  /\ Len(rasters) <= Iterations
  /\ Len(ExtractionCalls) <= Iterations
  /\ Len(ExtractionCalls) + FailedRasters <= Iterations
  /\ Len(sleeps) = retry_count

\* C26: process_file terminates, after at most max_retries + 1 passes
\* through its loop, each with at most one rasterization and at most one
\* extraction call; failed rasterizations, provider errors and zero-amount
\* results draw on one budget, so extraction calls and failed
\* rasterizations together never exceed max_retries + 1.
C26_TerminatesWithinBudget == []WithinBudget /\ <>Returned

\* process_file returned after using its whole budget on both failed
\* rasterizations and extraction calls
C26_Witness ==
  /\ Returned
  /\ max_retries >= 2
  /\ Len(ExtractionCalls) + FailedRasters = max_retries + 1
  /\ FailedRasters >= 1
  /\ Len(ExtractionCalls) >= 2

\* a step that made a provider call and then slept before the next attempt
CallThenSleep == Len(calls') = Len(calls) + 1 /\ Len(sleeps') = Len(sleeps) + 1

\* C20: the delay before the next attempt is 3 s after a network error of
\* the provider call and 2 s after a response without a positive amount,
\* whichever way call_ollama_ocr reaches the provider.
C20_DelayPerFailureKind ==
  [][CallThenSleep =>
       LET failed == calls'[Len(calls')].outcome
           delay == sleeps'[Len(sleeps')]
       IN /\ failed = NetworkFailure => delay = 3
          /\ failed # NetworkFailure => delay = 2]_vars

-----------------------------------------------------------------------------
(* Properties of the live configuration (checked under SpecCfg) *)

\* C21: the live configuration is not changed under a running batch: no
\* worker reads a retry limit other than the one self.config held when
\* start_processing launched it.
C21_ConfigStableDuringRun ==
  \A w \in DOMAIN workers : ~workers[w].misread

-----------------------------------------------------------------------------
(* Further properties of the loop body (checked under SpecDoc) *)

\* a step of the pass raised: the rasterization, the provider call or the
\* decoding of its reply
PassFailed(pass) ==
  \E i \in 1..Len(enrich_log) : enrich_log[i].pass = pass /\ ~enrich_log[i].ok

\* the note a failed classification would leave ("分类失败: ...")
NoteClassifyFailed == "classify failed"

\* the texts an appended outcome carries: its error list and its risk notes
NotesRecorded == Range(errors) \cup {enrich.risk_notes}

\* the fields of a pass hold default values: those of InvoiceInfo() or those
\* of the default_result of the pass
VerifyFieldsDefault ==
  /\ enrich.risk_level \in {DefaultEnrich.risk_level, "low"}
  /\ enrich.has_stamp = TRUE
  /\ enrich.image_quality \in {DefaultEnrich.image_quality, "good"}
ClassifyFieldsDefault ==
  /\ enrich.invoice_type \in {DefaultEnrich.invoice_type, "other"}
  /\ enrich.invoice_type_name \in {DefaultEnrich.invoice_type_name, "other type"}
  /\ enrich.expense_category \in {DefaultEnrich.expense_category, "other"}
  /\ enrich.expense_category_name \in {DefaultEnrich.expense_category_name, "other"}

\* total and error list are those process_file returned: the positive total
\* parsed from its last extraction call, and no error
OutcomeAsReturned ==
  /\ errors = <<>>
  /\ calls # <<>>
  /\ info = parse_invoice_info(call_ollama_ocr(calls[Len(calls)].outcome).reply)
  /\ DecPos(info.total)

\* the loop body goes on to the append of line 638, or has made it
OnTheWayToAppend ==
  e_pc \in {"classify_test", "classify_raster", "classify_call", "append", "appended"}

\* C22: a failure in the verification pass or in the classification pass
\* leaves the total and the error list of the document as they were, does
\* not keep the outcome from being appended, leaves the fields of that pass
\* at their default values and records a failure note for that pass.
C22_PassFailureIsolated ==
  /\ (PassFailed("verify") \/ PassFailed("classify"))
       => (OutcomeAsReturned /\ OnTheWayToAppend)
  /\ (e_pc = "appended" /\ PassFailed("verify"))
       => (VerifyFieldsDefault /\ NoteVerifyFailed \in NotesRecorded)
  /\ (e_pc = "appended" /\ PassFailed("classify"))
       => (ClassifyFieldsDefault /\ NoteClassifyFailed \in NotesRecorded)

-----------------------------------------------------------------------------
(* Further properties of ocr_api (checked under SpecApi) *)

\* the MIME type that goes with the extension of the image file
MimeOfExtension ==
  [s \in {".png", ".PNG", ".jpg", ".jpeg", ".webp", ".bmp"} |->
     CASE s \in {".png", ".PNG"} -> "image/png"
       [] s = ".webp" -> "image/webp"
       [] OTHER -> "image/jpeg"]

\* C23: the two token-auth providers build the data URI of the image with
\* the MIME type of the extension of the file (png, webp, jpg/jpeg), and
\* with image/jpeg when the extension is not a recognized one.
C23_MimeFromExtension ==
  (/\ Called
   /\ api_result.readable
   /\ api_provider.kind \in {"volcengine", "openrouter"}
   /\ api_result.suffix \in DOMAIN MimeOfExtension)
    => api_result.request = MimeOfExtension[api_result.suffix]

-----------------------------------------------------------------------------
(* Further properties of the UI handlers and the worker threads (checked   *)
(* under SpecGui)                                                          *)

LiveWorkers == {w \in DOMAIN workers : Live(w)}

\* C27: at most one worker thread is processing documents at any time:
\* start_processing launches no worker while an earlier one has not
\* finished.
C27_AtMostOneWorker == Cardinality(LiveWorkers) <= 1

\* the batch started last, and what may have cleared its flag: a stop
\* request made while it ran, or its own end
LatestBatch == workers[Len(workers)]
LatestStoppedOrEnded == LatestBatch.cancelled \/ LatestBatch.state = "finished"

\* C28: the processing flag of a running batch is cleared, and the start
\* button enabled again, only by a stop request or by the end of that same
\* batch, never by the "done" message of an earlier worker.
C28_FlagClearedByOwnBatchOnly ==
  (workers # <<>> /\ (~processing \/ start_btn = "normal")) => LatestStoppedOrEnded


\* the "done" messages in a queue
IsDone(msg) == msg.type = "done"
DonesIn(q) == Len(SelectSeq(q, IsDone))

\* the workers that end in a step
Ending == {w \in DOMAIN workers : Live(w) /\ workers'[w].state = "finished"}

\* Every step in which a worker ends puts one "done" at the end of the
\* queue, and no other step of a worker puts one: a worker posts "done" once,
\* as its last message.
OneDoneAtTheEnd ==
  /\ Ending # {} =>
       /\ DonesIn(message_queue') = DonesIn(message_queue) + 1
       /\ message_queue'[Len(message_queue')] = DoneMsg
  /\ Ending = {} => DonesIn(message_queue') <= DonesIn(message_queue)
  /\ \A w \in DOMAIN workers : ~Live(w) => workers'[w] = workers[w]

UiIdle == ~processing /\ start_btn = "normal"

\* C29: every worker run posts exactly one "done", as its last message,
\* whether it found no file, ran to the end, was stopped or raised; and so,
\* given that the calls of a worker return and the queue is polled, every
\* batch started leaves the UI idle in the end (processing False, start
\* button enabled): from some moment on the UI stays idle.
C29_OneDoneThenIdle ==
  /\ [][OneDoneAtTheEnd]_vars
  /\ <>[]UiIdle

\* two batches have run, one of them stopped, every worker has ended, every
\* message has been handled and the UI is idle
C29_Witness ==
  /\ Len(workers) = 2
  /\ \A w \in DOMAIN workers : ~Live(w)
  /\ \E w \in DOMAIN workers : workers[w].cancelled
  /\ \E w \in DOMAIN workers : ~workers[w].cancelled /\ workers[w].idx > workers[w].files
  /\ message_queue = <<>>
  /\ UiIdle

-----------------------------------------------------------------------------
(* rename_invoice_files (src/invoice_ocr_sum.py, lines 784-805) *)

BuyerLen == 15

RECURSIVE IntText(_)
IntText(n) ==
  LET digit == <<"0", "1", "2", "3", "4", "5", "6", "7", "8", "9">>[(n % 10) + 1]
  IN IF n < 10 THEN <<digit>> ELSE Append(IntText(n \div 10), digit)

\* the whole number nearest to m / 10^e (m >= 0), a tie going to the even one
RoundHalfEven(m, e) ==
  LET p == Pow10(e)
      q == m \div p
      r == m % p
  IN IF 2 * r > p \/ (2 * r = p /\ q % 2 = 1) THEN q + 1 ELSE q

\* f"{info.total:.0f}" (line 792)
Format0f(d) ==
  IF d.m < 0 THEN <<"-">> \o IntText(RoundHalfEven(0 - d.m, d.e))
  ELSE IntText(RoundHalfEven(d.m, d.e))

\* "".join(info.buyer.split())[:15] (line 791)
BuyerShort(buyer) ==
  LET joined == SelectSeq(buyer, LAMBDA c : ~IsSpace(c))
  IN Slice(joined, 1, IF Len(joined) < BuyerLen THEN Len(joined) ELSE BuyerLen)

\* a path of the directory: the stem and the suffix of its name
FilePath(stem, suffix) == [stem |-> stem, suffix |-> suffix]

\* path.parent / f"{total:.0f}-{buyer_short}{path.suffix}" (lines 792-793)
NewPath(o) ==
  FilePath(Format0f(o.total) \o <<"-">> \o BuyerShort(o.buyer), o.path.suffix)

\* "if errors or not info.total or not info.buyer: continue" (lines 788-789)
Skipped(o) == o.errors # <<>> \/ o.total.m = 0 \/ o.buyer = <<>>

NamesOf(fs) == {f.name : f \in fs}
ContentsOf(fs) == {f.content : f \in fs}

\* path.rename(new_path) where the platform replaces an existing file
Moved(fs, src, dst) ==
  {f \in fs : f.name \notin {src, dst}}
    \cup {[name |-> dst, content |-> (CHOOSE f \in fs : f.name = src).content]}

\* a line of rename_ops: "renamed" (the check mark), "failed" (the cross,
\* with the exception) or "suggested" (the arrow)
Op(mark, src, dst) == [mark |-> mark, src |-> src, dst |-> dst]

\* the files of the directory and the outcomes handed to the function
PdfSuffix == <<".", "p", "d", "f">>
BuyerStem == <<"x", "x", "x", "x", "x", "x", "x", "x", "x", "x", "x", "x", "x", "x", "x">>
RenameBuyers ==
  {<<>>, <<"A", "b">>, <<"A", " ", "b">>, BuyerStem \o <<"A">>, BuyerStem \o <<"B">>}
RenameTotals == {DecZero, DecOfInt(100), MkDec(1005, 1)}
DiskFiles ==
  { [name |-> FilePath(<<"a">>, PdfSuffix), content |-> 1],
    [name |-> FilePath(<<"b">>, PdfSuffix), content |-> 2],
    [name |-> FilePath(<<"1", "0", "0", "-", "A", "b">>, PdfSuffix), content |-> 3] }
RenameOutcomes(fs) ==
  [path : NamesOf(fs), total : RenameTotals, buyer : RenameBuyers,
   errors : {<<>>, <<"missing amount">>}]
\* the outcomes of one scan: no path twice
RenameBatches(fs) ==
  {batch \in UNION {[1..n -> RenameOutcomes(fs)] : n \in 0..MaxRenames} :
     \A i, j \in DOMAIN batch : i # j => batch[i].path # batch[j].path}

RenameIdle ==
  /\ ren_fs = {} /\ ren_batch = <<>> /\ ren_rename = FALSE /\ ren_posix = FALSE
  /\ ren_idx = 0 /\ ren_ops = <<>> /\ ren_out = NoResult
RenameStart ==
  /\ ren_fs \in SUBSET DiskFiles
  /\ ren_batch \in RenameBatches(ren_fs)
  /\ ren_rename \in BOOLEAN
  /\ ren_posix \in BOOLEAN
  /\ ren_idx = 1 /\ ren_ops = <<>> /\ ren_out = NoResult

\* one pass of the for loop (lines 787-802)
Rename_Iterate ==
  /\ ren_out = NoResult
  /\ ren_idx \in DOMAIN ren_batch
  /\ LET o == ren_batch[ren_idx]
         new_path == NewPath(o)
     IN IF Skipped(o)
        THEN UNCHANGED <<ren_fs, ren_ops>>
        ELSE IF ren_rename /\ o.path # new_path
        THEN IF o.path \notin NamesOf(ren_fs)
             THEN \* FileNotFoundError
                  /\ ren_ops' = Append(ren_ops, Op("failed", o.path, new_path))
                  /\ UNCHANGED ren_fs
             ELSE IF new_path \in NamesOf(ren_fs) /\ ~ren_posix
             THEN \* FileExistsError
                  /\ ren_ops' = Append(ren_ops, Op("failed", o.path, new_path))
                  /\ UNCHANGED ren_fs
             ELSE /\ ren_fs' = Moved(ren_fs, o.path, new_path)
                  /\ ren_ops' = Append(ren_ops, Op("renamed", o.path, new_path))
        ELSE /\ ren_ops' = Append(ren_ops, Op("suggested", o.path, new_path))
             /\ UNCHANGED ren_fs
  /\ ren_idx' = ren_idx + 1
  /\ UNCHANGED <<ren_batch, ren_rename, ren_posix, ren_out, notRename>>

\* "return rename_ops" (line 804)
Rename_Return ==
  /\ ren_out = NoResult
  /\ ren_idx = Len(ren_batch) + 1
  /\ ren_out' = [ops |-> ren_ops]
  /\ UNCHANGED <<ren_fs, ren_batch, ren_rename, ren_posix, ren_idx, ren_ops, notRename>>

(* Properties of rename_invoice_files (checked under SpecRename) *)

\* the pass of the loop being taken renames a file
Renames ==
  /\ Len(ren_ops') = Len(ren_ops) + 1
  /\ ren_ops'[Len(ren_ops')].mark = "renamed"
Renaming == ren_batch[ren_idx]
RenamedBefore == {ren_ops[i].dst : i \in {j \in DOMAIN ren_ops : ren_ops[j].mark = "renamed"}}
OnlyEligibleRenamed ==
  Renames => /\ Renaming.errors = <<>>
             /\ Renaming.total.m # 0
             /\ Renaming.buyer # <<>>
DestinationFree ==
  Renames => /\ NewPath(Renaming) \notin RenamedBefore
             /\ NewPath(Renaming) \notin NamesOf(ren_fs)
NoFileDestroyed == ContentsOf(ren_fs') = ContentsOf(ren_fs)

\* C30: only an outcome with an empty error list, a non-zero total and a
\* non-empty buyer is renamed, and a rename never destroys a file: within one
\* call no two source files are renamed to the same destination, no rename
\* targets a path where another file exists, and every file's content is
\* still in the directory after every pass.
C30_RenameDestroysNothing ==
  [][OnlyEligibleRenamed /\ DestinationFree /\ NoFileDestroyed]_vars

-----------------------------------------------------------------------------
(* Specifications *)

\* one call of process_file
GuiIdle ==
  /\ processing = FALSE
  /\ start_btn = "normal"
  /\ stop_btn = "disabled"
  /\ progress_var = 0
  /\ config_mode = "full"
  /\ config_retries = DefaultRetries
  /\ message_queue = <<>>
  /\ ui_pc = "idle"
  /\ workers = <<>>

Init == FileStart /\ ParseIdle /\ AnalyzeIdle /\ GuiIdle /\ EnrichIdle /\ ApiIdle /\ ScanIdle /\ RenameIdle
Next == PF_While \/ PF_Rasterize \/ PF_Validate \/ PF_Extract
Spec == Init /\ [][Next]_vars

\* process_file is sequential code: a step that can be taken is taken, given
\* that every rasterization, provider call and sleep returns
SpecTerm == Init /\ [][Next]_vars /\ WF_vars(Next)

InitParse == ParseStart /\ FileIdle /\ AnalyzeIdle /\ GuiIdle /\ EnrichIdle /\ ApiIdle /\ ScanIdle /\ RenameIdle
NextParse == Run_parse_invoice_info \/ Run_parse_amount
SpecParse == InitParse /\ [][NextParse]_vars

InitAnalyze == AnalyzeStart /\ ParseIdle /\ FileIdle /\ GuiIdle /\ EnrichIdle /\ ApiIdle /\ ScanIdle /\ RenameIdle
NextAnalyze == Main_Append \/ Main_Analyze \/ Call_Again
SpecAnalyze == InitAnalyze /\ [][NextAnalyze]_vars

InitGui == GuiIdle /\ ParseIdle /\ FileIdle /\ AnalyzeIdle /\ EnrichIdle /\ ApiIdle /\ ScanIdle /\ RenameIdle
NextGui ==
  \/ start_processing
  \/ stop_processing
  \/ check_message_queue_Get
  \/ check_message_queue_Empty
  \/ process_invoices
SpecGui == InitGui /\ [][NextGui]_vars

\* a worker thread that can take a step takes it, given that its provider
\* and rasterization calls return, and root.after polls the queue every
\* 100 ms: while a worker or the poll has something to do, one of them does
\* it; the user is under no obligation
Background == process_invoices \/ check_message_queue_Get \/ check_message_queue_Empty
SpecGuiFair == InitGui /\ [][NextGui]_vars /\ WF_vars(Background)

InitDoc == FileStart /\ EnrichStart /\ ParseIdle /\ AnalyzeIdle /\ GuiIdle /\ ApiIdle /\ ScanIdle /\ RenameIdle
NextDoc ==
  \/ PF_While \/ PF_Rasterize \/ PF_Validate \/ PF_Extract
  \/ Doc_VerifyTest \/ Doc_VerifyRaster \/ Doc_VerifyCall
  \/ Doc_ClassifyTest \/ Doc_ClassifyRaster \/ Doc_ClassifyCall
  \/ Doc_Append
SpecDoc == InitDoc /\ [][NextDoc]_vars

InitApi == ApiStart /\ ParseIdle /\ FileIdle /\ AnalyzeIdle /\ GuiIdle /\ EnrichIdle /\ ScanIdle /\ RenameIdle
NextApi == Api_create_provider \/ Api_call_ocr
SpecApi == InitApi /\ [][NextApi]_vars

InitScan == ScanStart /\ ParseIdle /\ FileIdle /\ AnalyzeIdle /\ GuiIdle /\ EnrichIdle /\ ApiIdle /\ RenameIdle
NextScan == Scan_iter_invoice_files
SpecScan == InitScan /\ [][NextScan]_vars

\* batches that are left to run to their end, and the settings handlers
InitRename == RenameStart /\ ParseIdle /\ FileIdle /\ AnalyzeIdle /\ GuiIdle /\ EnrichIdle /\ ApiIdle /\ ScanIdle
NextRename == Rename_Iterate \/ Rename_Return
SpecRename == InitRename /\ [][NextRename]_vars

InitCfg == InitGui
NextCfg ==
  \/ start_processing
  \/ save_settings
  \/ reset_settings
  \/ check_message_queue_Get
  \/ check_message_queue_Empty
  \/ process_invoices
SpecCfg == InitCfg /\ [][NextCfg]_vars

====
